---------------------------- MODULE Spec2Model ----------------------------
(***************************************************************************)
(* Model of the 3-tier semantic frame-based emotion classifier             *)
(* (src/sinhala-emotion-ontology/src/classify.py, class EmotionClassifier) *)
(* and of the hybrid arbitration done by EmotionClassifier.predict.        *)
(*                                                                         *)
(* Conventions                                                             *)
(*  - a token is a sequence of one-character strings, so that len(),       *)
(*    prefix and suffix tests are computed as the code computes them;      *)
(*  - a text is the sequence of characters typed by the caller, tokens     *)
(*    separated by " ";                                                    *)
(*  - Python floats are modelled by exact rationals <<n, d>> (d > 0, in    *)
(*    lowest terms); round(x, 4) is modelled by Round4; where the order of *)
(*    float additions is at stake (SpecFloat) the sums are computed in     *)
(*    binary64, bit for bit;                                               *)
(*  - token indices are 1-based here and 0-based in the code; every rule   *)
(*    of the code depends on differences and order of indices only;        *)
(*  - an exception that leaves predict puts the call at pc = "raised";     *)
(*  - label_conf holds the pair classify_ml returned to predict, and <<>>  *)
(*    when predict did not call it.                                        *)
(***************************************************************************)
EXTENDS Integers, Sequences, FiniteSets, TLC

(***************************************************************************)
(* Bounds of the model                                                     *)
(***************************************************************************)
MaxLen == 4

Callers == {1}

(***************************************************************************)
(* Exact rational arithmetic standing for Python float arithmetic          *)
(***************************************************************************)
Abs(x) == IF x < 0 THEN -x ELSE x

RECURSIVE GCD(_, _)
GCD(a, b) == IF b = 0 THEN a ELSE GCD(b, a % b)

Rat(n, d) ==
    LET g == GCD(Abs(n), d)
    IN  IF g = 0 THEN <<0, 1>> ELSE <<n \div g, d \div g>>

RMul(x, y) == Rat(x[1] * y[1], x[2] * y[2])

RAdd(x, y) == Rat(x[1] * y[2] + y[1] * x[2], x[2] * y[2])

RLess(x, y) == x[1] * y[2] < y[1] * x[2]

RLeq(x, y) == x[1] * y[2] <= y[1] * x[2]

RMax(x, y) == IF RLess(x, y) THEN y ELSE x

RMin(x, y) == IF RLess(y, x) THEN y ELSE x

\* x / y for y # 0
RDiv(x, y) ==
    IF y[1] > 0 THEN Rat(x[1] * y[2], x[2] * y[1])
    ELSE Rat(-(x[1] * y[2]), x[2] * (-y[1]))

Zero == <<0, 1>>

One == <<1, 1>>

\* round(x * scale) to the nearest integer, ties to the even neighbour
RoundScaled(x, scale) ==
    LET num == x[1] * scale
        fl  == num \div x[2]
        rem == num - fl * x[2]
    IN  IF 2 * rem > x[2] THEN fl + 1
        ELSE IF 2 * rem < x[2] THEN fl
        ELSE IF fl % 2 = 0 THEN fl ELSE fl + 1

\* round(x, 4) cutting the further places off
Round4_truncate(x) == Rat((x[1] * 10000) \div x[2], 10000)

\* Python round(x, 4)
Round4(x) == Rat(RoundScaled(x, 10000), 10000)

\* Python f"{x:.2f}"
Fmt2(x) ==
    LET h == RoundScaled(x, 100)
        a == Abs(h)
    IN  (IF h < 0 THEN "-" ELSE "") \o ToString(a \div 100) \o "."
            \o ToString((a % 100) \div 10) \o ToString(a % 10)

(***************************************************************************)
(* IEEE 754 binary64 addition, the "+" of Python floats.  A positive float *)
(* is [m, e] with m its 53 significand bits, most significant first, and   *)
(* value m * 2^e; FZero is 0.0.                                            *)
(***************************************************************************)
Precision == 53

FZero == [m |-> <<>>, e |-> 0]

Zeros(n) == [i \in 1..n |-> 0]

\* bits + 1
Increment(bits) ==
    IF \A i \in 1..Len(bits) : bits[i] = 1
    THEN <<1>> \o Zeros(Len(bits))
    ELSE LET k == CHOOSE k \in 1..Len(bits) :
                      /\ bits[k] = 0
                      /\ \A i \in (k + 1)..Len(bits) : bits[i] = 1
         IN  [i \in 1..Len(bits) |->
                 IF i < k THEN bits[i] ELSE IF i = k THEN 1 ELSE 0]

\* the carry into position i of a + b (position 0 is the carry out): some
\* position below i generates a carry and all between propagate it
Carry(a, b, i) ==
    IF \E j \in (i + 1)..Len(a) :
           /\ a[j] + b[j] = 2
           /\ \A k \in (i + 1)..(j - 1) : a[k] + b[k] = 1
    THEN 1 ELSE 0

\* a + b for bit strings of one length
AddBits(a, b) ==
    (IF Carry(a, b, 0) = 1 THEN <<1>> ELSE <<>>)
        \o [i \in 1..Len(a) |-> (a[i] + b[i] + Carry(a, b, i)) % 2]

\* the float nearest to bits * 2^e (bits with a leading 1 and at least
\* Precision long), ties to the even significand
RoundEven(bits, e) ==
    LET r    == Len(bits) - Precision
        keep == SubSeq(bits, 1, Precision)
        rest == SubSeq(bits, Precision + 1, Len(bits))
        up   == /\ r > 0
                /\ rest[1] = 1
                /\ \/ \E i \in 2..r : rest[i] = 1
                   \/ keep[Precision] = 1
        k    == IF up THEN Increment(keep) ELSE keep
    IN  IF Len(k) > Precision
        THEN [m |-> SubSeq(k, 1, Precision), e |-> e + r + 1]
        ELSE [m |-> k, e |-> e + r]

\* x + y on floats
FAdd(x, y) ==
    IF x = FZero THEN y
    ELSE IF y = FZero THEN x
    ELSE LET hi == IF x.e >= y.e THEN x ELSE y
             lo == IF x.e >= y.e THEN y ELSE x
             d  == hi.e - lo.e
         IN  IF d > Precision + 1 THEN hi
             ELSE RoundEven(AddBits(hi.m \o Zeros(d), Zeros(d) \o lo.m),
                            lo.e)

\* 2^i modulo d
RECURSIVE Pow2Mod(_, _)
Pow2Mod(i, d) ==
    IF i = 0 THEN 1 % d
    ELSE LET h == Pow2Mod(i \div 2, d)
         IN  (((h * h) % d) * (IF i % 2 = 1 THEN 2 ELSE 1)) % d

\* the remainder of the long division r / d after i binary places
Remainder(r, d, i) == (r * Pow2Mod(i, d)) % d

\* the first count binary places of r / d (r < d), then the remainder
QuotientBits(r, d, count) ==
    [i \in 1..count |->
        IF 2 * Remainder(r, d, i - 1) >= d THEN 1 ELSE 0]
        \o <<Remainder(r, d, count)>>

\* n / d = q * 2^e with 1 <= q < 2
RECURSIVE Normalise(_, _, _)
Normalise(n, d, e) ==
    IF n >= 2 * d THEN Normalise(n, 2 * d, e + 1)
    ELSE IF n < d THEN Normalise(2 * n, d, e - 1)
    ELSE <<n, d, e>>

\* float("n/d" written as a decimal): the float nearest to the rational
ToFloat(x) ==
    IF x[1] = 0 THEN FZero
    ELSE LET nd   == Normalise(x[1], x[2], 0)
             q    == QuotientBits(nd[1] - nd[2], nd[2], Precision)
             rem  == q[Precision + 1]
             bits == <<1>> \o SubSeq(q, 1, Precision)
                         \o (IF rem # 0 THEN <<1>> ELSE <<>>)
         IN  RoundEven(bits, nd[3] - Precision - (IF rem # 0 THEN 1 ELSE 0))

(***************************************************************************)
(* Sequence helpers                                                        *)
(***************************************************************************)
\* str.startswith
StartsWith(s, p) == Len(p) <= Len(s) /\ SubSeq(s, 1, Len(p)) = p

\* str.endswith
EndsWith(s, p) ==
    Len(p) <= Len(s) /\ SubSeq(s, Len(s) - Len(p) + 1, Len(s)) = p

\* dict.get(key, default)
Get(d, key, default) == IF key \in DOMAIN d THEN d[key] ELSE default

\* the empty dict {}
EmptyDict == [k \in {} |-> 0]

\* d[key] = value on a dict
Put(d, key, value) ==
    [k \in DOMAIN d \cup {key} |-> IF k = key THEN value ELSE d[k]]

(***************************************************************************)
(* Tokens (transliterated surface forms, one string per code point)        *)
(***************************************************************************)
T_satu  == <<"s", "a", "t", "u">>           \* frame trigger, exact label

T_dukay == <<"d", "u", "k", "a", "y">>      \* inflected form of a trigger

T_ne    == <<"n", "e">>                     \* negation particle

T_vunat == <<"v", "u", "n", "a", "t">>      \* contrastive connective

T_nisa  == <<"n", "i", "s", "a">>           \* causal connective

T_hari  == <<"h", "a", "r", "i">>           \* intensifier

T_godak == <<"g", "o", "d", "a", "k">>      \* intensifier of a lower level

T_tikak == <<"t", "i", "k", "a", "k">>      \* diminisher

T_mama  == <<"m", "a", "m", "a">>           \* first person, agent

T_mava  == <<"m", "a", "v", "a">>           \* first person, patient

T_mata  == <<"m", "a", "t", "a">>           \* first person, experiencer

T_tho   == <<"t", "h", "o">>                \* hostile second person

T_gedara == <<"g", "e", "d", "a", "r", "a">> \* content word, no frame

T_palan == <<"p", "a", "l", "a", "n">>      \* frame trigger, exact label

T_hoda  == <<"h", "o", "d", "a">>           \* frame trigger, exact label

T_gahala == <<"g", "a", "h", "a", "l", "a">> \* frame trigger, exact label

T_sat   == <<"s", "a", "t">>                \* stem, a prefix of three labels

T_du    == <<"d", "u">>                     \* two code points, prefix of labels

T_dukakin == <<"d", "u", "k", "a", "k", "i", "n">> \* long inflected form

T_umba  == <<"u", "m", "b", "a">>           \* hostile second person, a label

T_kannE == <<"k", "a", "n", "~", "n", "E">> \* verb with a negation suffix

T_annE  == <<"a", "n", "~", "n", "E">>      \* five code points, same suffix

T_eth   == <<"e", "t", "h">>                \* connective of one table only

\* labels of the ontology that are not themselves in the vocabulary
L_duk   == <<"d", "u", "k">>

L_duka  == <<"d", "u", "k", "a">>

L_sata  == <<"s", "a", "t", "a">>

L_sati  == <<"s", "a", "t", "i">>

(***************************************************************************)
(* The asset files read by EmotionClassifier.__init__                      *)
(***************************************************************************)
\* ontology/frames.json
FramesFile ==
    [ PhysicalHarm |->
        [ typicalEmotion |-> "Angry", agentEmotion |-> "Neutral",
          patientEmotion |-> "Sad", negatedEmotion |-> "Neutral",
          polarity |-> "negative", weight |-> <<1, 2>> ],
      PositiveEmotion |->
        [ typicalEmotion |-> "Happy", agentEmotion |-> "Happy",
          patientEmotion |-> "Happy", negatedEmotion |-> "Sad",
          polarity |-> "positive", weight |-> <<7, 10>> ],
      PositiveQuality |->
        [ typicalEmotion |-> "Happy", agentEmotion |-> "Happy",
          patientEmotion |-> "Happy", negatedEmotion |-> "Sad",
          polarity |-> "positive", weight |-> <<1, 2>> ],
      SadEmotion |->
        [ typicalEmotion |-> "Sad", agentEmotion |-> "Sad",
          patientEmotion |-> "Sad", negatedEmotion |-> "Neutral",
          polarity |-> "negative", weight |-> <<1, 2>> ],
      ThreatAction |->
        [ typicalEmotion |-> "Angry", agentEmotion |-> "Angry",
          patientEmotion |-> "Sad", negatedEmotion |-> "Neutral",
          polarity |-> "negative", weight |-> <<9, 10>> ] ]

\* a value of frames.json that is not a number (null, a string)
NotANumber == <<>>

\* a frames.json that violates the schema in two entries: PositiveEmotion
\* has no typicalEmotion and the weight of ThreatAction is not a number
MalformedFramesFile ==
    [ PhysicalHarm |->
        [ typicalEmotion |-> "Angry", agentEmotion |-> "Neutral",
          patientEmotion |-> "Sad", negatedEmotion |-> "Neutral",
          polarity |-> "negative", weight |-> <<1, 2>> ],
      PositiveEmotion |->
        [ agentEmotion |-> "Happy",
          patientEmotion |-> "Happy", negatedEmotion |-> "Sad",
          polarity |-> "positive", weight |-> <<7, 10>> ],
      PositiveQuality |->
        [ typicalEmotion |-> "Happy", agentEmotion |-> "Happy",
          patientEmotion |-> "Happy", negatedEmotion |-> "Sad",
          polarity |-> "positive", weight |-> <<1, 2>> ],
      SadEmotion |->
        [ typicalEmotion |-> "Sad", agentEmotion |-> "Sad",
          patientEmotion |-> "Sad", negatedEmotion |-> "Neutral",
          polarity |-> "negative", weight |-> <<1, 2>> ],
      ThreatAction |->
        [ typicalEmotion |-> "Angry", agentEmotion |-> "Angry",
          patientEmotion |-> "Sad", negatedEmotion |-> "Neutral",
          polarity |-> "negative", weight |-> NotANumber ] ]

\* ontology/modifiers.json; the levels and types are kept in file order
ModifiersFile ==
    [ negation |-> [ words |-> <<T_ne>> ],
      intensifiers |-> [ levels |->
          << [ multiplier |-> <<3, 2>>, words |-> <<T_hari>> ],
             [ multiplier |-> <<13, 10>>, words |-> <<T_godak>> ] >> ],
      diminishers |-> [ multiplier |-> <<3, 5>>, words |-> <<T_tikak>> ],
      discourse_connectives |-> [ types |->
          << [ type |-> "contrastive",
               pre_clause_weight |-> <<3, 10>>,
               post_clause_weight |-> <<6, 5>>,
               words |-> <<T_vunat>> ],
             [ type |-> "causal",
               pre_clause_weight |-> <<1, 2>>,
               post_clause_weight |-> <<3, 2>>,
               words |-> <<T_nisa>> ] >> ] ]

\* a modifiers.json whose multipliers leave the documented ranges: an
\* intensifier below 1, a diminisher above 1, and a contrastive connective
\* that discards the clause before it
OddModifiersFile ==
    [ negation |-> [ words |-> <<T_ne>> ],
      intensifiers |-> [ levels |->
          << [ multiplier |-> <<4, 5>>, words |-> <<T_hari>> ] >> ],
      diminishers |-> [ multiplier |-> <<6, 5>>, words |-> <<T_tikak>> ],
      discourse_connectives |-> [ types |->
          << [ type |-> "contrastive",
               pre_clause_weight |-> <<0, 1>>,
               post_clause_weight |-> <<1, 1>>,
               words |-> <<T_vunat>> ] >> ] ]

\* a modifiers.json whose contrastive connective discounts the clause
\* before it steeply
SteepModifiersFile ==
    [ negation |-> [ words |-> <<T_ne>> ],
      intensifiers |-> [ levels |->
          << [ multiplier |-> <<3, 2>>, words |-> <<T_hari>> ],
             [ multiplier |-> <<13, 10>>, words |-> <<T_godak>> ] >> ],
      diminishers |-> [ multiplier |-> <<3, 5>>, words |-> <<T_tikak>> ],
      discourse_connectives |-> [ types |->
          << [ type |-> "contrastive",
               pre_clause_weight |-> <<1, 20000>>,
               post_clause_weight |-> <<1, 1>>,
               words |-> <<T_eth>> ] >> ] ]

\* ontology/role_markers.json; a group name is kept as its "_"-separated
\* parts so that the substring test of the loader can be computed
RoleMarkersFile ==
    << [ role |-> "agent", groups |->
           << [ name |-> <<"first_person", "singular">>, hostile |-> FALSE,
                words |-> <<T_mama>> ],
              [ name |-> <<"second_person", "hostile">>, hostile |-> TRUE,
                words |-> <<T_tho, T_umba>> ] >> ],
       [ role |-> "patient", groups |->
           << [ name |-> <<"first_person">>, hostile |-> FALSE,
                words |-> <<T_mava>> ] >> ],
       [ role |-> "experiencer", groups |->
           << [ name |-> <<"first_person">>, hostile |-> FALSE,
                words |-> <<T_mata>> ] >> ] >>

\* ontology/sinhala_emotion.ttl: the LexicalTrigger rows (label, frame label)
\* in the order the SPARQL engine enumerates them
OntologyFile ==
    << [ label |-> T_satu,  frame_label |-> "PositiveEmotion" ],
       [ label |-> T_hoda,  frame_label |-> "PositiveQuality" ],
       [ label |-> L_duk,   frame_label |-> "SadEmotion" ],
       [ label |-> L_duka,  frame_label |-> "SadEmotion" ],
       [ label |-> T_vunat, frame_label |-> "SadEmotion" ],
       [ label |-> T_palan, frame_label |-> "ThreatAction" ],
       [ label |-> T_gahala, frame_label |-> "PhysicalHarm" ],
       [ label |-> L_sata,  frame_label |-> "PositiveEmotion" ],
       [ label |-> L_sati,  frame_label |-> "PositiveQuality" ],
       [ label |-> T_umba,  frame_label |-> "ThreatAction" ] >>

\* data/centroids.pkl: the labels of the table in insertion order; the
\* vectors are represented by their dot product with an embedding (Sim)
CentroidsFile == <<"Happy", "Sad", "Angry", "Neutral">>

(***************************************************************************)
(* The embedder: SentenceTransformer.encode is an opaque deterministic     *)
(* function of the text.  A loaded model is one member, fixed at load, of  *)
(* a family of such functions; Sim is the dot product of the normalised    *)
(* embedding of a text with the centroid of a label.                       *)
(***************************************************************************)
Seeds == {0, 1, 2}

Sims == << <<-1, 2>>, <<1, 5>>, <<1, 4>>, <<2, 3>> >>

LabelCode(label) ==
    CASE label = "Happy" -> 1
      [] label = "Sad" -> 2
      [] label = "Angry" -> 3
      [] OTHER -> 4

Sim(seed, text, label) ==
    Sims[((Len(text) + seed * LabelCode(label)) % Len(Sims)) + 1]

(***************************************************************************)
(* EmotionClassifier.__init__ and its lookup builders                      *)
(***************************************************************************)
RECURSIVE PutAll(_, _, _)
PutAll(d, words, value) ==
    IF words = <<>> THEN d
    ELSE PutAll(Put(d, Head(words), value), Tail(words), value)

SeqToSet(s) == {s[i] : i \in 1..Len(s)}

RECURSIVE IntensifierMap(_, _)
IntensifierMap(levels, d) ==
    IF levels = <<>> THEN d
    ELSE LET level_data == Head(levels)
             multiplier == Get(level_data, "multiplier", One)
         IN  IntensifierMap(Tail(levels),
                 PutAll(d, Get(level_data, "words", <<>>), multiplier))

RECURSIVE ConnectiveMap(_, _)
ConnectiveMap(types, d) ==
    IF types = <<>> THEN d
    ELSE LET conn_data == Head(types)
             pre_w  == Get(conn_data, "pre_clause_weight", One)
             post_w == Get(conn_data, "post_clause_weight", One)
         IN  ConnectiveMap(Tail(types),
                 PutAll(d, Get(conn_data, "words", <<>>),
                        <<conn_data.type, pre_w, post_w>>))

_build_modifier_lookups(mod) ==
    LET dim == Get(mod, "diminishers", EmptyDict)
        dim_multiplier == Get(dim, "multiplier", <<3, 5>>)
    IN  [ negation_words |->
              SeqToSet(Get(Get(mod, "negation", EmptyDict), "words", <<>>)),
          intensifier_map |->
              IntensifierMap(
                  Get(Get(mod, "intensifiers", EmptyDict), "levels", <<>>),
                  EmptyDict),
          diminisher_map |->
              PutAll(EmptyDict, Get(dim, "words", <<>>), dim_multiplier),
          connective_map |->
              ConnectiveMap(
                  Get(Get(mod, "discourse_connectives", EmptyDict),
                      "types", <<>>),
                  EmptyDict) ]

\* the (role, group, word) triples of the role marker file, in file order
RECURSIVE GroupWords(_, _)
GroupWords(role, groups) ==
    IF groups = <<>> THEN <<>>
    ELSE LET group_data == Head(groups)
             words == Get(group_data, "words", <<>>)
         IN  [i \in 1..Len(words) |->
                 [ role |-> role,
                   is_hostile |-> Get(group_data, "hostile", FALSE),
                   first_person |->
                       "first_person" \in SeqToSet(group_data.name),
                   word |-> words[i] ]]
             \o GroupWords(role, Tail(groups))

RECURSIVE RoleWords(_)
RoleWords(rm) ==
    IF rm = <<>> THEN <<>>
    ELSE GroupWords(Get(Head(rm), "role", ""), Get(Head(rm), "groups", <<>>))
         \o RoleWords(Tail(rm))

_build_role_marker_lookups(rm) ==
    LET rw == SeqToSet(RoleWords(rm))
        FirstPerson(role) ==
            {e.word : e \in {x \in rw : x.first_person /\ x.role = role}}
    IN  [ hostile_words |-> {e.word : e \in {x \in rw : x.is_hostile}},
          first_person_agent |-> FirstPerson("agent"),
          first_person_patient |-> FirstPerson("patient"),
          first_person_experiencer |-> FirstPerson("experiencer") ]

\* which asset files exist ("" for a missing modifiers.json, else which of
\* the modifier tables it holds), whether frames.json keeps to its schema
\* and whether the sentence transformer loads
AssetConfigs ==
    { [ frames |-> TRUE, malformed |-> FALSE, modifiers |-> "modifiers.json",
        role_markers |-> TRUE, ontology |-> TRUE, centroids |-> TRUE,
        model |-> [loaded |-> TRUE, seed |-> s] ] : s \in Seeds }
    \cup
    { [ frames |-> TRUE, malformed |-> FALSE, modifiers |-> "modifiers.json",
        role_markers |-> TRUE, ontology |-> TRUE, centroids |-> TRUE,
        model |-> [loaded |-> FALSE, seed |-> 0] ],
      [ frames |-> TRUE, malformed |-> FALSE, modifiers |-> "modifiers.json",
        role_markers |-> TRUE, ontology |-> TRUE, centroids |-> FALSE,
        model |-> [loaded |-> TRUE, seed |-> 1] ],
      [ frames |-> FALSE, malformed |-> FALSE, modifiers |-> "modifiers.json",
        role_markers |-> TRUE, ontology |-> TRUE, centroids |-> TRUE,
        model |-> [loaded |-> TRUE, seed |-> 1] ],
      [ frames |-> TRUE, malformed |-> FALSE, modifiers |-> "",
        role_markers |-> TRUE, ontology |-> TRUE, centroids |-> TRUE,
        model |-> [loaded |-> TRUE, seed |-> 1] ],
      [ frames |-> TRUE, malformed |-> TRUE, modifiers |-> "modifiers.json",
        role_markers |-> TRUE, ontology |-> TRUE, centroids |-> TRUE,
        model |-> [loaded |-> TRUE, seed |-> 1] ],
      [ frames |-> TRUE, malformed |-> FALSE, modifiers |-> "odd",
        role_markers |-> TRUE, ontology |-> TRUE, centroids |-> TRUE,
        model |-> [loaded |-> TRUE, seed |-> 1] ],
      [ frames |-> TRUE, malformed |-> FALSE, modifiers |-> "steep",
        role_markers |-> TRUE, ontology |-> TRUE, centroids |-> TRUE,
        model |-> [loaded |-> TRUE, seed |-> 1] ] }

__init__(cfg) ==
    LET frames_data ==
            IF cfg.frames
            THEN IF cfg.malformed THEN MalformedFramesFile ELSE FramesFile
            ELSE EmptyDict
        modifiers_data ==
            CASE cfg.modifiers = "modifiers.json" -> ModifiersFile
              [] cfg.modifiers = "odd" -> OddModifiersFile
              [] cfg.modifiers = "steep" -> SteepModifiersFile
              [] OTHER -> EmptyDict
        role_markers_data ==
            IF cfg.role_markers THEN RoleMarkersFile ELSE <<>>
        mods  == _build_modifier_lookups(modifiers_data)
        roles == _build_role_marker_lookups(role_markers_data)
    IN  [ g |-> IF cfg.ontology THEN OntologyFile ELSE <<>>,
          frames_data |-> frames_data,
          negation_words |-> mods.negation_words,
          intensifier_map |-> mods.intensifier_map,
          diminisher_map |-> mods.diminisher_map,
          connective_map |-> mods.connective_map,
          hostile_words |-> roles.hostile_words,
          first_person_agent |-> roles.first_person_agent,
          first_person_patient |-> roles.first_person_patient,
          first_person_experiencer |-> roles.first_person_experiencer,
          centroids |-> IF cfg.centroids THEN CentroidsFile ELSE <<>>,
          model |-> cfg.model ]

(***************************************************************************)
(* State                                                                   *)
(***************************************************************************)
VARIABLES
    self,                \* the fields of the one EmotionClassifier instance
    pc,                  \* pc[c]: where call c of predict stands
    text,                \* text[c]: the argument of the call
    tokens,              \* local of classify_ontology
    linguistic_context,  \* local of classify_ontology (Tier 1 result)
    frame_matches,       \* local of classify_ontology (Tier 2 result)
    emotion_scores,      \* Tier 3 result: ordered dict emotion -> score
    matched_words,       \* Tier 3 result: ordered dict emotion -> tokens
    explanation,         \* Tier 3 result: list of trace lines
    contributions,       \* per match: the locals of the Tier 3 loop body
    label_conf,          \* locals label, conf of predict (classify_ml)
    result,              \* the dict returned by predict
    seen                 \* a response a caller of predict has kept

vars == <<self, pc, text, tokens, linguistic_context, frame_matches,
          emotion_scores, matched_words, explanation, contributions,
          label_conf, result, seen>>

(***************************************************************************)
(* Ordered dicts (Python dicts keep insertion order): sequences of         *)
(* <<key, value>> pairs with distinct keys                                 *)
(***************************************************************************)
Keys(d) == {d[i][1] : i \in 1..Len(d)}

KeyList(d) == [i \in 1..Len(d) |-> d[i][1]]

Lookup(d, k) == LET i == CHOOSE j \in 1..Len(d) : d[j][1] = k IN d[i][2]

\* d[k] = v: a new key goes last, an old key keeps its place
Store(d, k, v) ==
    IF k \in Keys(d)
    THEN [i \in 1..Len(d) |-> IF d[i][1] = k THEN <<k, v>> ELSE d[i]]
    ELSE Append(d, <<k, v>>)

(***************************************************************************)
(* Tokenization: indic_tokenize.trivial_tokenize on space separated words  *)
(***************************************************************************)
RECURSIVE Split(_, _, _)
Split(chars, word, acc) ==
    IF chars = <<>>
    THEN IF word = <<>> THEN acc ELSE Append(acc, word)
    ELSE IF Head(chars) = " "
         THEN Split(Tail(chars), <<>>,
                    IF word = <<>> THEN acc ELSE Append(acc, word))
         ELSE Split(Tail(chars), Append(word, Head(chars)), acc)

tokenize(t) == Split(t, <<>>, <<>>)

\* the text a caller types for a list of words
RECURSIVE Join(_)
Join(words) ==
    IF words = <<>> THEN <<>>
    ELSE IF Len(words) = 1 THEN words[1]
    ELSE words[1] \o <<" ">> \o Join(Tail(words))

(***************************************************************************)
(* Tier 1: _analyze_linguistics                                            *)
(***************************************************************************)
NEGATION_WINDOW == 2

INTENSIFIER_WINDOW == 3

HOSTILE_ADDRESS_WEIGHT == <<7, 10>>

\* the verb-final negation suffixes, code point for code point
\* ("~" is the virama, "E" the long vowel sign)
NegSuffixes ==
    { <<"n", "~", "n", "E">>, <<"n", "~", "n", "e", "h", "e">>,
      <<"n", "~", "b", "E">>, <<"n", "~", "b", "e", "h", "e">> }

\* the indices from i on whose token is in the set S, in index order
RECURSIVE Positions(_, _, _)
Positions(toks, S, i) ==
    IF i > Len(toks) THEN <<>>
    ELSE (IF toks[i] \in S THEN <<i>> ELSE <<>>) \o Positions(toks, S, i + 1)

\* Tier 1 with the suffix rule applied from five code points on
_analyze_linguistics_len5(toks) ==
    LET IsNeg(t) ==
            \/ t \in self.negation_words
            \/ /\ t \notin self.negation_words
               /\ Len(t) >= 5
               /\ \E neg_suffix \in NegSuffixes : EndsWith(t, neg_suffix)
        ints  == Positions(toks, DOMAIN self.intensifier_map, 1)
        dims  == Positions(toks, DOMAIN self.diminisher_map, 1)
        conns == Positions(toks, DOMAIN self.connective_map, 1)
        hosts == Positions(toks, self.hostile_words, 1)
        Some(S) == \E i \in 1..Len(toks) : toks[i] \in S
    IN  [ negation_positions |->
              Positions(toks, {t \in SeqToSet(toks) : IsNeg(t)}, 1),
          intensifier_positions |->
              [k \in 1..Len(ints) |->
                  <<ints[k], self.intensifier_map[toks[ints[k]]]>>],
          diminisher_positions |->
              [k \in 1..Len(dims) |->
                  <<dims[k], self.diminisher_map[toks[dims[k]]]>>],
          connective_positions |->
              [k \in 1..Len(conns) |->
                  <<conns[k]>> \o self.connective_map[toks[conns[k]]]],
          role_info |->
              [ speaker_is_agent |-> Some(self.first_person_agent),
                speaker_is_patient |-> Some(self.first_person_patient),
                speaker_is_experiencer |->
                    Some(self.first_person_experiencer),
                hostile_address |-> Len(hosts) > 0,
                hostile_count |-> Len(hosts) ] ]

_analyze_linguistics(toks) ==
    LET IsNeg(t) ==
            \/ t \in self.negation_words
            \/ /\ t \notin self.negation_words
               /\ Len(t) > 5
               /\ \E neg_suffix \in NegSuffixes : EndsWith(t, neg_suffix)
        ints  == Positions(toks, DOMAIN self.intensifier_map, 1)
        dims  == Positions(toks, DOMAIN self.diminisher_map, 1)
        conns == Positions(toks, DOMAIN self.connective_map, 1)
        hosts == Positions(toks, self.hostile_words, 1)
        Some(S) == \E i \in 1..Len(toks) : toks[i] \in S
    IN  [ negation_positions |->
              Positions(toks, {t \in SeqToSet(toks) : IsNeg(t)}, 1),
          intensifier_positions |->
              [k \in 1..Len(ints) |->
                  <<ints[k], self.intensifier_map[toks[ints[k]]]>>],
          diminisher_positions |->
              [k \in 1..Len(dims) |->
                  <<dims[k], self.diminisher_map[toks[dims[k]]]>>],
          connective_positions |->
              [k \in 1..Len(conns) |->
                  <<conns[k]>> \o self.connective_map[toks[conns[k]]]],
          role_info |->
              [ speaker_is_agent |-> Some(self.first_person_agent),
                speaker_is_patient |-> Some(self.first_person_patient),
                speaker_is_experiencer |->
                    Some(self.first_person_experiencer),
                hostile_address |-> Len(hosts) > 0,
                hostile_count |-> Len(hosts) ] ]

(***************************************************************************)
(* Tier 2: _match_frames                                                   *)
(***************************************************************************)
MAX_PREFIX_DIFF == 3

MinTokenLen == 3

\* the rows of the SPARQL query for one token, in the engine's order
Query(target) ==
    SelectSeq(self.g,
        LAMBDA row : \/ row.label = target
                     \/ StartsWith(row.label, target)
                     \/ StartsWith(target, row.label))

\* the modifier test without the connective map
IsModifier_noconn(token) ==
    \/ token \in self.negation_words
    \/ token \in DOMAIN self.intensifier_map
    \/ token \in DOMAIN self.diminisher_map

IsModifier(token) ==
    \/ token \in self.negation_words
    \/ token \in DOMAIN self.intensifier_map
    \/ token \in DOMAIN self.diminisher_map
    \/ token \in DOMAIN self.connective_map

\* the match records one row contributes for the token at idx
RowMatch(idx, token, row) ==
    LET label_str  == row.label
        frame_name == row.frame_label
        frame_props == Get(self.frames_data, frame_name, EmptyDict)
    IN  IF label_str # token
           /\ Abs(Len(label_str) - Len(token)) > MAX_PREFIX_DIFF
        THEN <<>>
        ELSE IF DOMAIN frame_props = {}
        THEN <<>>
        ELSE << [ token_idx |-> idx,
                  token |-> token,
                  matched_label |-> label_str,
                  frame_name |-> frame_name,
                  typicalEmotion |->
                      Get(frame_props, "typicalEmotion", "Neutral"),
                  agentEmotion |->
                      Get(frame_props, "agentEmotion", "Neutral"),
                  patientEmotion |->
                      Get(frame_props, "patientEmotion", "Neutral"),
                  negatedEmotion |->
                      Get(frame_props, "negatedEmotion", "Neutral"),
                  polarity |-> Get(frame_props, "polarity", "neutral"),
                  weight |-> Get(frame_props, "weight", <<1, 2>>) ] >>

RECURSIVE RowMatches(_, _, _)
RowMatches(idx, token, rows) ==
    IF rows = <<>> THEN <<>>
    ELSE RowMatch(idx, token, Head(rows))
         \o RowMatches(idx, token, Tail(rows))

\* the lookup for a token without the test of its length
TokenMatches_anylen(idx, token) ==
    IF IsModifier(token) THEN <<>>
    ELSE RowMatches(idx, token, Query(token))

TokenMatches(idx, token) ==
    IF Len(token) < MinTokenLen THEN <<>>
    ELSE IF IsModifier(token) THEN <<>>
    ELSE RowMatches(idx, token, Query(token))

RECURSIVE RawMatches(_, _)
RawMatches(toks, idx) ==
    IF idx > Len(toks) THEN <<>>
    ELSE TokenMatches(idx, toks[idx]) \o RawMatches(toks, idx + 1)

\* the dict best, keyed by (token_idx, frame_name), as an ordered dict
RECURSIVE Dedupe(_, _)
Dedupe(raw, best) ==
    IF raw = <<>> THEN best
    ELSE LET m == Head(raw)
             key == <<m.token_idx, m.frame_name>>
         IN  Dedupe(Tail(raw),
                 IF key \notin Keys(best)
                    \/ Len(m.matched_label)
                           > Len(Lookup(best, key).matched_label)
                 THEN Store(best, key, m)
                 ELSE best)

\* Tier 2 returning the raw list, one record per row of the query
_match_frames_nodedupe(toks) == RawMatches(toks, 1)

_match_frames(toks) ==
    LET best == Dedupe(RawMatches(toks, 1), <<>>)
    IN  [i \in 1..Len(best) |-> best[i][2]]

(***************************************************************************)
(* Formatting.  A formatted string is kept as the list of its pieces so    *)
(* that "starts with" can be computed; str() of a float is rendered as     *)
(* the fraction it stands for.                                             *)
(***************************************************************************)
RECURSIVE TokStr(_)
TokStr(t) == IF t = <<>> THEN "" ELSE Head(t) \o TokStr(Tail(t))

FmtR(x) ==
    IF x[2] = 1 THEN ToString(x[1])
    ELSE ToString(x[1]) \o "/" \o ToString(x[2])

\* str(dict(pairs)) piece by piece
RECURSIVE FmtDict(_)
FmtDict(d) ==
    IF d = <<>> THEN <<>>
    ELSE <<d[1][1], FmtR(d[1][2])>> \o FmtDict(Tail(d))

(***************************************************************************)
(* Tier 3: _infer_emotions and its helpers                                 *)
(***************************************************************************)
NegationThreshold == <<7, 10>>

\* the negation scope one token too wide
_is_negated_wide(token_idx, negation_positions) ==
    \E k \in 1..Len(negation_positions) :
        /\ Abs(token_idx - negation_positions[k]) <= NEGATION_WINDOW + 1
        /\ token_idx # negation_positions[k]

_is_negated(token_idx, negation_positions) ==
    \E k \in 1..Len(negation_positions) :
        /\ Abs(token_idx - negation_positions[k]) <= NEGATION_WINDOW
        /\ token_idx # negation_positions[k]

RECURSIVE IntLoop(_, _, _)
\* the intensifiers in window multiplied together
RECURSIVE IntLoopStacking(_, _, _)
IntLoopStacking(token_idx, positions, best) ==
    IF positions = <<>> THEN best
    ELSE LET int_idx == Head(positions)[1]
             multiplier == Head(positions)[2]
         IN  IntLoopStacking(token_idx, Tail(positions),
                 IF Abs(token_idx - int_idx) <= INTENSIFIER_WINDOW
                    /\ token_idx # int_idx
                 THEN RMul(best, multiplier) ELSE best)

_get_intensifier_multiplier_stacking(token_idx, intensifier_positions) ==
    IntLoopStacking(token_idx, intensifier_positions, One)

IntLoop(token_idx, positions, best) ==
    IF positions = <<>> THEN best
    ELSE LET int_idx == Head(positions)[1]
             multiplier == Head(positions)[2]
         IN  IntLoop(token_idx, Tail(positions),
                 IF Abs(token_idx - int_idx) <= INTENSIFIER_WINDOW
                    /\ token_idx # int_idx
                 THEN RMax(best, multiplier) ELSE best)

_get_intensifier_multiplier(token_idx, intensifier_positions) ==
    IntLoop(token_idx, intensifier_positions, One)

\* the diminisher multiplier taken from the last diminisher in the window,
\* without the comparison against the running value
RECURSIVE DimLoopLast(_, _, _)
DimLoopLast(token_idx, positions, best) ==
    IF positions = <<>> THEN best
    ELSE LET dim_idx == Head(positions)[1]
             multiplier == Head(positions)[2]
         IN  DimLoopLast(token_idx, Tail(positions),
                 IF Abs(token_idx - dim_idx) <= INTENSIFIER_WINDOW
                    /\ token_idx # dim_idx
                 THEN multiplier ELSE best)

_get_diminisher_multiplier_last(token_idx, diminisher_positions) ==
    DimLoopLast(token_idx, diminisher_positions, One)

RECURSIVE DimLoop(_, _, _)
DimLoop(token_idx, positions, best) ==
    IF positions = <<>> THEN best
    ELSE LET dim_idx == Head(positions)[1]
             multiplier == Head(positions)[2]
         IN  DimLoop(token_idx, Tail(positions),
                 IF Abs(token_idx - dim_idx) <= INTENSIFIER_WINDOW
                    /\ token_idx # dim_idx
                 THEN RMin(best, multiplier) ELSE best)

_get_diminisher_multiplier(token_idx, diminisher_positions) ==
    DimLoop(token_idx, diminisher_positions, One)

RECURSIVE DiscLoop(_, _, _)
DiscLoop(token_idx, positions, weight) ==
    IF positions = <<>> THEN weight
    ELSE LET conn_idx  == Head(positions)[1]
             conn_type == Head(positions)[2]
             pre_w     == Head(positions)[3]
             post_w    == Head(positions)[4]
         IN  DiscLoop(token_idx, Tail(positions),
                 IF conn_type = "contrastive"
                 THEN IF token_idx < conn_idx THEN RMul(weight, pre_w)
                      ELSE IF token_idx > conn_idx THEN RMul(weight, post_w)
                      ELSE weight
                 ELSE weight)

\* the discourse weight with every connective type treated as contrastive
RECURSIVE DiscLoopAnyType(_, _, _)
DiscLoopAnyType(token_idx, positions, weight) ==
    IF positions = <<>> THEN weight
    ELSE DiscLoopAnyType(token_idx, Tail(positions),
             IF token_idx < Head(positions)[1]
             THEN RMul(weight, Head(positions)[3])
             ELSE IF token_idx > Head(positions)[1]
             THEN RMul(weight, Head(positions)[4])
             ELSE weight)

_get_discourse_weight_anytype(token_idx, connective_positions) ==
    DiscLoopAnyType(token_idx, connective_positions, One)

\* the discourse weight with pre_w and post_w taken the wrong way round
RECURSIVE DiscLoopSwapped(_, _, _)
DiscLoopSwapped(token_idx, positions, weight) ==
    IF positions = <<>> THEN weight
    ELSE DiscLoopSwapped(token_idx, Tail(positions),
             IF Head(positions)[2] = "contrastive"
             THEN IF token_idx < Head(positions)[1]
                  THEN RMul(weight, Head(positions)[4])
                  ELSE IF token_idx > Head(positions)[1]
                  THEN RMul(weight, Head(positions)[3])
                  ELSE weight
             ELSE weight)

_get_discourse_weight_swapped(token_idx, connective_positions) ==
    DiscLoopSwapped(token_idx, connective_positions, One)

_get_discourse_weight(token_idx, connective_positions) ==
    DiscLoop(token_idx, connective_positions, One)

\* Step A with the agent test before the patient test
RoleSelect_agentfirst(match, role_info) ==
    IF role_info.speaker_is_agent
    THEN <<match.agentEmotion, "agent">>
    ELSE IF role_info.speaker_is_patient
    THEN <<match.patientEmotion, "patient">>
    ELSE <<match.typicalEmotion, "typical">>

\* Step A of the loop body: (emotion, role_used)
RoleSelect(match, role_info) ==
    IF role_info.speaker_is_patient
    THEN <<match.patientEmotion, "patient">>
    ELSE IF role_info.speaker_is_agent
    THEN <<match.agentEmotion, "agent">>
    ELSE <<match.typicalEmotion, "typical">>

\* Steps A..C of the loop body for one match: the values of its locals
Contribution(match, ctx) ==
    LET token_idx == match.token_idx
        sel == RoleSelect(match, ctx.role_info)
        negated ==
            /\ RLeq(NegationThreshold, match.weight)
            /\ _is_negated(token_idx, ctx.negation_positions)
        int_mult ==
            _get_intensifier_multiplier(token_idx, ctx.intensifier_positions)
        dim_mult ==
            _get_diminisher_multiplier(token_idx, ctx.diminisher_positions)
        disc_w ==
            _get_discourse_weight(token_idx, ctx.connective_positions)
    IN  [ token_idx |-> token_idx,
          token |-> match.token,
          frame_name |-> match.frame_name,
          role_used |-> sel[2],
          negated |-> negated,
          emotion |-> IF negated THEN match.negatedEmotion ELSE sel[1],
          int_mult |-> int_mult,
          dim_mult |-> dim_mult,
          disc_w |-> disc_w,
          weight |-> RMul(RMul(RMul(match.weight, int_mult), dim_mult),
                          disc_w) ]

\* the explanation lines the loop body appends for one match
MatchLines(c) ==
    << IF c.negated
       THEN <<"'", TokStr(c.token), "' [", c.frame_name, "] negated -> ",
              c.emotion>>
       ELSE <<"'", TokStr(c.token), "' [", c.frame_name, "] role=",
              c.role_used, " -> ", c.emotion>> >>
    \o (IF RLess(One, c.int_mult)
        THEN << <<"  intensifier boost x", FmtR(c.int_mult)>> >> ELSE <<>>)
    \o (IF RLess(c.dim_mult, One)
        THEN << <<"  diminisher reduction x", FmtR(c.dim_mult)>> >>
        ELSE <<>>)
    \o (IF c.disc_w # One
        THEN << <<"  discourse weight x", FmtR(c.disc_w)>> >> ELSE <<>>)

\* Step D: accumulate one contribution
Accumulate(acc, c) ==
    LET scores0 == IF c.emotion \in Keys(acc.emotion_scores)
                   THEN acc.emotion_scores
                   ELSE Store(acc.emotion_scores, c.emotion, Zero)
        words0  == IF c.emotion \in Keys(acc.emotion_scores)
                   THEN acc.matched_words
                   ELSE Store(acc.matched_words, c.emotion, <<>>)
    IN  [ emotion_scores |->
              Store(scores0, c.emotion,
                    RAdd(Lookup(scores0, c.emotion), c.weight)),
          matched_words |->
              Store(words0, c.emotion,
                    Append(Lookup(words0, c.emotion), c.token)),
          explanation |-> acc.explanation \o MatchLines(c),
          contributions |-> Append(acc.contributions, c) ]

RECURSIVE MatchLoop(_, _, _)
MatchLoop(matches, ctx, acc) ==
    IF matches = <<>> THEN acc
    ELSE MatchLoop(Tail(matches), ctx,
                   Accumulate(acc, Contribution(Head(matches), ctx)))

\* Step E adding the hostile weight once, whatever the count
HostileStep_once(acc, role_info) ==
    IF role_info.hostile_address
    THEN LET hostile_signal == HOSTILE_ADDRESS_WEIGHT
             scores0 == IF "Angry" \in Keys(acc.emotion_scores)
                        THEN acc.emotion_scores
                        ELSE Store(acc.emotion_scores, "Angry", Zero)
             words0  == IF "Angry" \in Keys(acc.emotion_scores)
                        THEN acc.matched_words
                        ELSE Store(acc.matched_words, "Angry", <<>>)
         IN  [ acc EXCEPT
                 !.emotion_scores =
                     Store(scores0, "Angry",
                           RAdd(Lookup(scores0, "Angry"), hostile_signal)),
                 !.matched_words = words0,
                 !.explanation = Append(acc.explanation,
                     <<"Hostile address detected (",
                       ToString(role_info.hostile_count),
                       "x) -> Angry +", Fmt2(hostile_signal)>>) ]
    ELSE acc

\* Step E without the matched_words entry for Angry
HostileStep_nowords(acc, role_info) ==
    IF role_info.hostile_address
    THEN LET hostile_signal ==
                 RMul(HOSTILE_ADDRESS_WEIGHT, <<role_info.hostile_count, 1>>)
             scores0 == IF "Angry" \in Keys(acc.emotion_scores)
                        THEN acc.emotion_scores
                        ELSE Store(acc.emotion_scores, "Angry", Zero)
         IN  [ acc EXCEPT
                 !.emotion_scores =
                     Store(scores0, "Angry",
                           RAdd(Lookup(scores0, "Angry"), hostile_signal)),
                 !.explanation = Append(acc.explanation,
                     <<"Hostile address detected (",
                       ToString(role_info.hostile_count),
                       "x) -> Angry +", Fmt2(hostile_signal)>>) ]
    ELSE acc

\* Step E: hostile address anger signal
HostileStep(acc, role_info) ==
    IF role_info.hostile_address
    THEN LET hostile_signal ==
                 RMul(HOSTILE_ADDRESS_WEIGHT, <<role_info.hostile_count, 1>>)
             scores0 == IF "Angry" \in Keys(acc.emotion_scores)
                        THEN acc.emotion_scores
                        ELSE Store(acc.emotion_scores, "Angry", Zero)
             words0  == IF "Angry" \in Keys(acc.emotion_scores)
                        THEN acc.matched_words
                        ELSE Store(acc.matched_words, "Angry", <<>>)
         IN  [ acc EXCEPT
                 !.emotion_scores =
                     Store(scores0, "Angry",
                           RAdd(Lookup(scores0, "Angry"), hostile_signal)),
                 !.matched_words = words0,
                 !.explanation = Append(acc.explanation,
                     <<"Hostile address detected (",
                       ToString(role_info.hostile_count),
                       "x) -> Angry +", Fmt2(hostile_signal)>>) ]
    ELSE acc

_infer_emotions(matches, ctx, toks) ==
    HostileStep(
        MatchLoop(matches, ctx,
            [ emotion_scores |-> <<>>, matched_words |-> <<>>,
              explanation |-> <<>>, contributions |-> <<>> ]),
        ctx.role_info)

(***************************************************************************)
(* ML fallback: classify_ml                                                *)
(***************************************************************************)
NeutralThreshold == <<1, 4>>

\* the loop over self.centroids.items(): <<best_label, best_score>>
RECURSIVE CentroidLoop(_, _, _)
CentroidLoop(labels, t, best) ==
    IF labels = <<>> THEN best
    ELSE LET label == Head(labels)
             score == Sim(self.model.seed, t, label)
         IN  CentroidLoop(Tail(labels), t,
                 IF label = "Neutral" THEN best
                 ELSE IF RLess(best[2], score) THEN <<label, score>>
                 ELSE best)

\* classify_ml testing the embedder only, not the centroid table
classify_ml_nocentroidtest(t) ==
    IF ~self.model.loaded
    THEN <<"Unknown", Zero>>
    ELSE LET best == CentroidLoop(self.centroids, t, <<"Neutral", <<-1, 1>>>>)
         IN  IF RLess(best[2], NeutralThreshold)
             THEN <<"Neutral", Round4(best[2])>>
             ELSE <<best[1], Round4(best[2])>>

\* classify_ml returning no label when the fallback is unavailable
classify_ml_nolabel(t) ==
    IF ~self.model.loaded \/ self.centroids = <<>>
    THEN <<"None", Zero>>
    ELSE LET best == CentroidLoop(self.centroids, t, <<"Neutral", <<-1, 1>>>>)
         IN  IF RLess(best[2], NeutralThreshold)
             THEN <<"Neutral", Round4(best[2])>>
             ELSE <<best[1], Round4(best[2])>>

\* classify_ml returning Neutral up to and including the threshold
classify_ml_inclusive(t) ==
    IF ~self.model.loaded \/ self.centroids = <<>>
    THEN <<"Unknown", Zero>>
    ELSE LET best == CentroidLoop(self.centroids, t, <<"Neutral", <<-1, 1>>>>)
         IN  IF RLeq(best[2], NeutralThreshold)
             THEN <<"Neutral", Round4(best[2])>>
             ELSE <<best[1], Round4(best[2])>>

classify_ml(t) ==
    IF ~self.model.loaded \/ self.centroids = <<>>
    THEN <<"Unknown", Zero>>
    ELSE LET best == CentroidLoop(self.centroids, t, <<"Neutral", <<-1, 1>>>>)
         IN  IF RLess(best[2], NeutralThreshold)
             THEN <<"Neutral", Round4(best[2])>>
             ELSE <<best[1], Round4(best[2])>>

(***************************************************************************)
(* Hybrid prediction: the arbitration of predict                           *)
(***************************************************************************)
\* sorted(items, key = score, reverse = True): stable, descending
\* the insertion step of a sort that forgets reverse=True (ascending)
RECURSIVE InsertDesc_ascending(_, _)
InsertDesc_ascending(sorted, item) ==
    IF sorted = <<>> THEN <<item>>
    ELSE IF RLess(item[2], Head(sorted)[2])
         THEN <<item>> \o sorted
         ELSE <<Head(sorted)>> \o InsertDesc_ascending(Tail(sorted), item)

RECURSIVE InsertDesc(_, _)
InsertDesc(sorted, item) ==
    IF sorted = <<>> THEN <<item>>
    ELSE IF RLess(Head(sorted)[2], item[2])
         THEN <<item>> \o sorted
         ELSE <<Head(sorted)>> \o InsertDesc(Tail(sorted), item)

\* sorted() leaving the items in the order of the dict
SortDesc_unsorted(items, sorted) == sorted \o items

RECURSIVE SortDesc(_, _)
SortDesc(items, sorted) ==
    IF items = <<>> THEN sorted
    ELSE SortDesc(Tail(items), InsertDesc(sorted, Head(items)))

Two == <<2, 1>>

Half == <<1, 2>>

\* x / y on floats: [raised |-> TRUE] stands for ZeroDivisionError
TrueDiv(x, y) ==
    IF y[1] = 0 THEN [raised |-> TRUE, value |-> Zero]
    ELSE [raised |-> FALSE, value |-> RDiv(x, y)]

\* the condition without the test second_score == 0
DominanceTest_nozerotest(top_score, second_score) ==
    IF ~RLess(Zero, top_score) THEN [raised |-> FALSE, value |-> FALSE]
    ELSE LET q == TrueDiv(top_score, second_score)
         IN  [ raised |-> q.raised,
               value |-> ~q.raised /\ RLeq(Two, q.value) ]

\* top_score > 0 and (second_score == 0 or top_score / second_score >= 2.0)
\* evaluated from left to right: whether it raises and, if not, its value
DominanceTest(top_score, second_score) ==
    IF ~RLess(Zero, top_score) THEN [raised |-> FALSE, value |-> FALSE]
    ELSE IF second_score = Zero THEN [raised |-> FALSE, value |-> TRUE]
    ELSE LET q == TrueDiv(top_score, second_score)
         IN  [ raised |-> q.raised,
               value |-> ~q.raised /\ RLeq(Two, q.value) ]

\* the dominance test with a strict ratio
Dominates_strict(top_score, second_score) ==
    /\ RLess(Zero, top_score)
    /\ \/ second_score = Zero
       \/ RLess(Two, RDiv(top_score, second_score))

\* the dominance test with a ratio of 1.0 instead of 2.0
Dominates_ratio1(top_score, second_score) ==
    /\ RLess(Zero, top_score)
    /\ \/ second_score = Zero
       \/ RLeq(One, RDiv(top_score, second_score))

\* the test of the dominant branch
Dominates(top_score, second_score) ==
    DominanceTest(top_score, second_score).value

\* the confidence of the single-emotion branch without the floor of 0.5
SingleConfidence_nofloor(total_weight) ==
    RMin(Round4(RDiv(total_weight, Two)), One)

\* the confidence of the single-emotion branch without the cap of 1.0
SingleConfidence_nocap(total_weight) ==
    RMax(Round4(RDiv(total_weight, Two)), Half)

\* the local confidence of the single-emotion branch
SingleConfidence(total_weight) ==
    RMax(RMin(Round4(RDiv(total_weight, Two)), One), Half)

\* the returned dict (ret) and the locals label, conf of predict
\* (label_conf; <<>> on the branches that do not call classify_ml)
Arbitration(t, scores, words, expl) ==
    IF scores = <<>>
    THEN LET ml == classify_ml(t)
         IN  [ ret |->
                 [ label |-> ml[1],
                   confidence |-> ml[2],
                   method |-> <<"ML", " (LaBSE) - No Ontology Match">>,
                   matched_words |-> <<>>,
                   explanation |->
                       << <<"No frames matched -> fallback to ML">> >> ],
               label_conf |-> ml ]
    ELSE IF Len(KeyList(scores)) = 1
    THEN LET emotion == KeyList(scores)[1]
             total_weight == Lookup(scores, emotion)
             confidence == SingleConfidence(total_weight)
             triggers == IF emotion \in Keys(words)
                         THEN Lookup(words, emotion) ELSE <<>>
         IN  [ ret |->
                 [ label |-> emotion,
                   confidence |-> confidence,
                   method |-> <<"Ontology", " (Frame-based, ",
                                ToString(Len(triggers)), " triggers)">>,
                   matched_words |-> words,
                   explanation |-> expl ],
               label_conf |-> <<>> ]
    ELSE LET sorted_emotions == SortDesc(scores, <<>>)
             top_emotion    == sorted_emotions[1][1]
             top_score      == sorted_emotions[1][2]
             second_emotion == sorted_emotions[2][1]
             second_score   == sorted_emotions[2][2]
         IN  IF Dominates(top_score, second_score)
             THEN [ ret |->
                      [ label |-> top_emotion,
                        confidence |->
                            RMin(Round4(RDiv(top_score,
                                             RAdd(top_score, second_score))),
                                 One),
                        method |-> <<"Ontology", " (Frame-based, dominant: ",
                                     top_emotion, "=", Fmt2(top_score),
                                     " vs ", second_emotion, "=",
                                     Fmt2(second_score), ")">>,
                        matched_words |-> words,
                        explanation |-> expl ],
                    label_conf |-> <<>> ]
             ELSE LET ml == classify_ml(t)
                  IN  [ ret |->
                          [ label |-> ml[1],
                            confidence |-> ml[2],
                            method |->
                                <<"ML", " (LaBSE) - Frame Conflict", " ">>
                                \o FmtDict(sorted_emotions),
                            matched_words |-> words,
                            explanation |-> Append(expl,
                                <<"Frame conflict: ">>
                                \o FmtDict(sorted_emotions)
                                \o <<" -> fallback to ML">>) ],
                        label_conf |-> ml ]

\* predict leaves the arbitration by ZeroDivisionError
ArbitrationRaises(scores) ==
    /\ Len(KeyList(scores)) >= 2
    /\ LET sorted_emotions == SortDesc(scores, <<>>)
           top_score       == sorted_emotions[1][2]
           second_score    == sorted_emotions[2][2]
           test            == DominanceTest(top_score, second_score)
       IN  \/ test.raised
           \/ /\ test.value
              /\ TrueDiv(top_score, RAdd(top_score, second_score)).raised

(***************************************************************************)
(* The texts callers send: all word lists of at most MaxLen words over    *)
(* one of the vocabularies below                                           *)
(***************************************************************************)
WordLists(V) == UNION {[1..n -> V] : n \in 0..MaxLen}

NegationVocab == {T_ne, T_satu, T_dukay, T_gedara}

DiscourseVocab == {T_vunat, T_nisa, T_satu, T_dukay}

HostileVocab == {T_tho, T_satu, T_dukay, T_palan}

ContrastVocab == {T_hoda, T_vunat, T_dukay}

\* the texts of the callers that call predict again and again
MaxProbeLen == 3

ProbeVocab == {T_tho, T_satu, T_dukay}

ProbeTexts == UNION {[1..n -> ProbeVocab] : n \in 0..MaxProbeLen}

RoleVocab == {T_mama, T_mava, T_mata, T_gahala}

ThreeVocab == {T_hoda, T_dukay, T_gahala}

\* texts long enough for a modifier to stand outside the intensifier window
MaxIntensityLen == 5

IntensityVocab == {T_hari, T_godak, T_tikak, T_satu}

IntensityTexts == UNION {[1..n -> IntensityVocab] : n \in 0..MaxIntensityLen}

\* short texts over the forms that exercise the trigger lookup and the
\* negation suffixes
MaxShortLen == 3

TriggerVocab == {T_sat, T_du, T_dukay, T_dukakin, T_umba}

SuffixVocab == {T_kannE, T_annE, T_ne, T_satu}

ShortTexts ==
    UNION {[1..n -> TriggerVocab] \cup [1..n -> SuffixVocab]
               : n \in 0..MaxShortLen}

\* two clauses joined by the connective T_eth
MaxClauseLen == 2

ClauseVocab == {T_hoda, T_dukay}

Clauses == UNION {[1..n -> ClauseVocab] : n \in 0..MaxClauseLen}

ClauseTexts == {pre \o <<T_eth>> \o post : pre \in Clauses, post \in Clauses}

Texts ==
    WordLists(NegationVocab) \cup WordLists(DiscourseVocab)
        \cup WordLists(HostileVocab) \cup WordLists(ContrastVocab)
        \cup WordLists(RoleVocab) \cup WordLists(ThreeVocab)
        \cup IntensityTexts \cup ShortTexts \cup ClauseTexts

\* the worker threads of the host server (app.py runs classify_text in a
\* thread pool, on the one module-level classifier) and their texts
Threads == {1, 2}

MaxThreadLen == 2

ThreadVocab == {T_tho, T_satu, T_dukay}

ThreadTexts == UNION {[1..n -> ThreadVocab] : n \in 0..MaxThreadLen}

(***************************************************************************)
(* Initial state and the steps of a call of predict                        *)
(***************************************************************************)
NoContext ==
    [ negation_positions |-> <<>>, intensifier_positions |-> <<>>,
      diminisher_positions |-> <<>>, connective_positions |-> <<>>,
      role_info |-> [ speaker_is_agent |-> FALSE,
                      speaker_is_patient |-> FALSE,
                      speaker_is_experiencer |-> FALSE,
                      hostile_address |-> FALSE, hostile_count |-> 0 ] ]

NoResult ==
    [ label |-> "", confidence |-> Zero, method |-> <<>>,
      matched_words |-> <<>>, explanation |-> <<>> ]

\* the state after classifier = EmotionClassifier(), for the callers C
InitFor(C) ==
    /\ \E cfg \in AssetConfigs : self = __init__(cfg)
    /\ pc = [c \in C |-> "idle"]
    /\ text = [c \in C |-> <<>>]
    /\ tokens = [c \in C |-> <<>>]
    /\ linguistic_context = [c \in C |-> NoContext]
    /\ frame_matches = [c \in C |-> <<>>]
    /\ emotion_scores = [c \in C |-> <<>>]
    /\ matched_words = [c \in C |-> <<>>]
    /\ explanation = [c \in C |-> <<>>]
    /\ contributions = [c \in C |-> <<>>]
    /\ label_conf = [c \in C |-> <<>>]
    /\ result = [c \in C |-> NoResult]
    /\ seen = [ kept |-> FALSE, text |-> <<>>, result |-> NoResult,
                between |-> FALSE ]

Init == InitFor(Callers)

\* a caller invokes predict(text) with a text of the set T
Call(c, T) ==
    /\ pc[c] = "idle"
    /\ \E words \in T : text' = [text EXCEPT ![c] = Join(words)]
    /\ pc' = [pc EXCEPT ![c] = "tokenize"]
    /\ UNCHANGED <<seen, self, tokens, linguistic_context, frame_matches,
                   emotion_scores, matched_words, explanation,
                   contributions, label_conf, result>>

Predict(c) == Call(c, Texts)

\* a request handled by a worker thread of the host server
PredictThread(c) == Call(c, ThreadTexts)

\* the same call from a caller that repeats its requests and notes
\* whether it asked for another text since the response it kept
PredictAgain(c) ==
    /\ pc[c] = "idle"
    /\ \E words \in ProbeTexts :
           /\ text' = [text EXCEPT ![c] = Join(words)]
           /\ seen' = IF seen.kept /\ Join(words) # seen.text
                      THEN [seen EXCEPT !.between = TRUE]
                      ELSE seen
    /\ pc' = [pc EXCEPT ![c] = "tokenize"]
    /\ UNCHANGED <<self, tokens, linguistic_context, frame_matches,
                   emotion_scores, matched_words, explanation,
                   contributions, label_conf, result>>

\* the caller keeps the response of one finished call
Keep(c) ==
    /\ pc[c] = "done"
    /\ ~seen.kept
    /\ seen' = [ kept |-> TRUE, text |-> text[c], result |-> result[c],
                 between |-> FALSE ]
    /\ UNCHANGED <<self, pc, text, tokens, linguistic_context, frame_matches,
                   emotion_scores, matched_words, explanation,
                   contributions, label_conf, result>>

\* classify_ontology: tokens = self.tokenize(text)
Tokenize(c) ==
    /\ pc[c] = "tokenize"
    /\ tokens' = [tokens EXCEPT ![c] = tokenize(text[c])]
    /\ pc' = [pc EXCEPT ![c] = "tier1"]
    /\ UNCHANGED <<seen, self, text, linguistic_context, frame_matches,
                   emotion_scores, matched_words, explanation,
                   contributions, label_conf, result>>

\* classify_ontology: Tier 1
AnalyzeLinguistics(c) ==
    /\ pc[c] = "tier1"
    /\ linguistic_context' =
           [linguistic_context EXCEPT ![c] = _analyze_linguistics(tokens[c])]
    /\ pc' = [pc EXCEPT ![c] = "tier2"]
    /\ UNCHANGED <<seen, self, text, tokens, frame_matches, emotion_scores,
                   matched_words, explanation, contributions, label_conf,
                   result>>

\* Tier 2 taking the frames out of frames_data (pop) as it matches them
MatchFrames_pop(c) ==
    /\ pc[c] = "tier2"
    /\ LET found == _match_frames(tokens[c])
           used  == {found[k].frame_name : k \in 1..Len(found)}
       IN  /\ frame_matches' = [frame_matches EXCEPT ![c] = found]
           /\ self' = [self EXCEPT !.frames_data =
                          [f \in DOMAIN self.frames_data \ used |->
                              self.frames_data[f]]]
    /\ pc' = [pc EXCEPT ![c] = "tier3"]
    /\ UNCHANGED <<seen, text, tokens, linguistic_context, emotion_scores,
                   matched_words, explanation, contributions, label_conf,
                   result>>

\* classify_ontology: Tier 2
MatchFrames(c) ==
    /\ pc[c] = "tier2"
    /\ frame_matches' = [frame_matches EXCEPT ![c] = _match_frames(tokens[c])]
    /\ pc' = [pc EXCEPT ![c] = "tier3"]
    /\ UNCHANGED <<seen, self, text, tokens, linguistic_context, emotion_scores,
                   matched_words, explanation, contributions, label_conf,
                   result>>

\* match["weight"] >= 0.7 and weight *= int_mult raise TypeError when the
\* weight of a match record is not a number
RaisesTypeError(matches) ==
    \E k \in 1..Len(matches) : matches[k].weight = NotANumber

\* Tier 3 reading the match list as an attribute the threads share: it
\* holds the list of whichever thread ran Tier 2 last
InferEmotions_shared(c) ==
    /\ pc[c] = "tier3"
    /\ \E d \in DOMAIN pc :
           /\ pc[d] \in {"tier3", "arbitrate", "done"}
           /\ LET r == _infer_emotions(frame_matches[d],
                                       linguistic_context[c], tokens[c])
              IN  /\ emotion_scores' =
                         [emotion_scores EXCEPT ![c] = r.emotion_scores]
                  /\ matched_words' =
                         [matched_words EXCEPT ![c] = r.matched_words]
                  /\ explanation' = [explanation EXCEPT ![c] = r.explanation]
                  /\ contributions' =
                         [contributions EXCEPT ![c] = r.contributions]
    /\ pc' = [pc EXCEPT ![c] = "arbitrate"]
    /\ UNCHANGED <<seen, self, text, tokens, linguistic_context, frame_matches,
                   label_conf, result>>

\* classify_ontology: Tier 3; a TypeError leaves the call at once
InferEmotions(c) ==
    /\ pc[c] = "tier3"
    /\ IF RaisesTypeError(frame_matches[c])
       THEN /\ pc' = [pc EXCEPT ![c] = "raised"]
            /\ UNCHANGED <<emotion_scores, matched_words, explanation,
                           contributions>>
       ELSE /\ LET r == _infer_emotions(frame_matches[c],
                                        linguistic_context[c], tokens[c])
               IN  /\ emotion_scores' =
                          [emotion_scores EXCEPT ![c] = r.emotion_scores]
                   /\ matched_words' =
                          [matched_words EXCEPT ![c] = r.matched_words]
                   /\ explanation' =
                          [explanation EXCEPT ![c] = r.explanation]
                   /\ contributions' =
                          [contributions EXCEPT ![c] = r.contributions]
            /\ pc' = [pc EXCEPT ![c] = "arbitrate"]
    /\ UNCHANGED <<seen, self, text, tokens, linguistic_context, frame_matches,
                   label_conf, result>>

\* predict: the arbitration, the ML fallback included
Arbitrate(c) ==
    /\ pc[c] = "arbitrate"
    /\ IF ArbitrationRaises(emotion_scores[c])
       THEN /\ pc' = [pc EXCEPT ![c] = "raised"]
            /\ UNCHANGED <<result, label_conf>>
       ELSE /\ LET a == Arbitration(text[c], emotion_scores[c],
                                    matched_words[c], explanation[c])
               IN  /\ result' = [result EXCEPT ![c] = a.ret]
                   /\ label_conf' = [label_conf EXCEPT ![c] = a.label_conf]
            /\ pc' = [pc EXCEPT ![c] = "done"]
    /\ UNCHANGED <<seen, self, text, tokens, linguistic_context, frame_matches,
                   emotion_scores, matched_words, explanation, contributions>>

\* the locals of a call cease to exist when it ends
Unwind(c) ==
    /\ pc' = [pc EXCEPT ![c] = "idle"]
    /\ text' = [text EXCEPT ![c] = <<>>]
    /\ tokens' = [tokens EXCEPT ![c] = <<>>]
    /\ linguistic_context' = [linguistic_context EXCEPT ![c] = NoContext]
    /\ frame_matches' = [frame_matches EXCEPT ![c] = <<>>]
    /\ emotion_scores' = [emotion_scores EXCEPT ![c] = <<>>]
    /\ matched_words' = [matched_words EXCEPT ![c] = <<>>]
    /\ explanation' = [explanation EXCEPT ![c] = <<>>]
    /\ contributions' = [contributions EXCEPT ![c] = <<>>]
    /\ label_conf' = [label_conf EXCEPT ![c] = <<>>]
    /\ result' = [result EXCEPT ![c] = NoResult]
    /\ UNCHANGED <<seen, self>>

\* predict returns: the result goes to the caller
Return(c) ==
    /\ pc[c] = "done"
    /\ Unwind(c)

\* the exception leaves predict and reaches the caller
Propagate(c) ==
    /\ pc[c] = "raised"
    /\ Unwind(c)

Next ==
    \E c \in Callers :
        \/ Predict(c)
        \/ Tokenize(c)
        \/ AnalyzeLinguistics(c)
        \/ MatchFrames(c)
        \/ InferEmotions(c)
        \/ Arbitrate(c)
        \/ Return(c)
        \/ Propagate(c)

Spec == Init /\ [][Next]_vars

\* callers that repeat requests and compare the responses
NextRepeat ==
    \E c \in Callers :
        \/ PredictAgain(c)
        \/ Tokenize(c)
        \/ AnalyzeLinguistics(c)
        \/ MatchFrames(c)
        \/ InferEmotions(c)
        \/ Arbitrate(c)
        \/ Keep(c)
        \/ Return(c)

SpecRepeat == Init /\ [][NextRepeat]_vars

\* the worker threads of the host server call predict at the same time;
\* their steps interleave in any order
InitThreads == InitFor(Threads)

NextThreads ==
    \E c \in Threads :
        \/ PredictThread(c)
        \/ Tokenize(c)
        \/ AnalyzeLinguistics(c)
        \/ MatchFrames(c)
        \/ InferEmotions(c)
        \/ Arbitrate(c)
        \/ Return(c)

SpecThreads == InitThreads /\ [][NextThreads]_vars

(***************************************************************************)
(* Step D of Tier 3 in binary64: the scores of a text without modifiers,   *)
(* role markers and hostile address, accumulated over the match list of    *)
(* Tier 2 (call 1) and over a permutation of that list (call 2)            *)
(***************************************************************************)
MaxFloatLen == 4

FloatVocab == {T_palan, T_gahala}

FloatTexts == UNION {[1..n -> FloatVocab] : n \in 0..MaxFloatLen}

PermutationsOf(s) ==
    { [i \in 1..Len(s) |-> s[p[i]]] : p \in Permutations(1..Len(s)) }

\* Step D: emotion_scores[emotion] starts at 0.0 and takes += weight
FloatAccumulate(scores, emotion, weight) ==
    LET scores0 == IF emotion \in Keys(scores) THEN scores
                   ELSE Store(scores, emotion, FZero)
    IN  Store(scores0, emotion, FAdd(Lookup(scores0, emotion), weight))

\* the loop over the match list; without modifiers in window the three
\* multipliers are 1.0 and the weight is the frame weight as parsed
RECURSIVE FloatMatchLoop(_, _)
FloatMatchLoop(matches, scores) ==
    IF matches = <<>> THEN scores
    ELSE LET match == Head(matches)
             final_emotion == RoleSelect(match, NoContext.role_info)[1]
         IN  FloatMatchLoop(Tail(matches),
                 FloatAccumulate(scores, final_emotion,
                                 ToFloat(match.weight)))

InitFloat ==
    /\ self = __init__([ frames |-> TRUE, malformed |-> FALSE,
                         modifiers |-> "modifiers.json",
                         role_markers |-> TRUE, ontology |-> TRUE,
                         centroids |-> TRUE,
                         model |-> [loaded |-> TRUE, seed |-> 1] ])
    /\ pc = [c \in Threads |-> "tier3"]
    /\ \E words \in FloatTexts :
           /\ text = [c \in Threads |-> Join(words)]
           /\ tokens = [c \in Threads |-> tokenize(Join(words))]
           /\ \E permuted \in PermutationsOf(_match_frames(words)) :
                  frame_matches =
                      [c \in Threads |->
                          IF c = 1 THEN _match_frames(words) ELSE permuted]
    /\ linguistic_context = [c \in Threads |-> NoContext]
    /\ emotion_scores = [c \in Threads |-> <<>>]
    /\ matched_words = [c \in Threads |-> <<>>]
    /\ explanation = [c \in Threads |-> <<>>]
    /\ contributions = [c \in Threads |-> <<>>]
    /\ label_conf = [c \in Threads |-> <<>>]
    /\ result = [c \in Threads |-> NoResult]
    /\ seen = [ kept |-> FALSE, text |-> <<>>, result |-> NoResult,
                between |-> FALSE ]

InferFloat(c) ==
    /\ pc[c] = "tier3"
    /\ emotion_scores' =
           [emotion_scores EXCEPT ![c] =
               FloatMatchLoop(frame_matches[c], <<>>)]
    /\ pc' = [pc EXCEPT ![c] = "arbitrate"]
    /\ UNCHANGED <<seen, self, text, tokens, linguistic_context,
                   frame_matches, matched_words, explanation, contributions,
                   label_conf, result>>

NextFloat == \E c \in Threads : InferFloat(c)

SpecFloat == InitFloat /\ [][NextFloat]_vars

(***************************************************************************)
(* Properties                                                              *)
(***************************************************************************)
Done(c) == pc[c] = "done"

\* the tiers have run for call c and their results are in its locals
Inferred(c) == pc[c] \in {"arbitrate", "done"}

RECURSIVE Concat(_)
Concat(pieces) ==
    IF pieces = <<>> THEN "" ELSE Head(pieces) \o Concat(Tail(pieces))

\* the formatted string starts with prefix (a prefix that ends where a
\* piece ends)
StartsWithStr(pieces, prefix) ==
    \E n \in 0..Len(pieces) : Concat(SubSeq(pieces, 1, n)) = prefix

Labels == {"Happy", "Sad", "Angry", "Neutral", "Unknown"}

InModifierSets(token) ==
    \/ token \in self.negation_words
    \/ token \in DOMAIN self.intensifier_map
    \/ token \in DOMAIN self.diminisher_map
    \/ token \in DOMAIN self.connective_map

HostileTokens(c) == {i \in 1..Len(tokens[c]) : tokens[c][i] \in self.hostile_words}

\* C1: the confidence of every result returned by predict lies in [0,1],
\* on all four arbitration paths, the ML paths included.
C1_ConfidenceInUnitInterval ==
    \A c \in Callers :
        Done(c) => /\ RLeq(Zero, result[c].confidence)
                   /\ RLeq(result[c].confidence, One)

\* C2: the label returned by predict is one of Happy, Sad, Angry, Neutral,
\* Unknown, whether it comes from a frame, from the hostile-address
\* injection or from the centroid table of the ML fallback.
C2_LabelInClosedSet ==
    \A c \in Callers : Done(c) => result[c].label \in Labels

\* a result whose label was taken from the centroid table
C2_Witness ==
    \E c \in Callers :
        /\ Done(c)
        /\ StartsWithStr(result[c].method, "ML")
        /\ result[c].label \in {"Happy", "Sad", "Angry"}

\* C3: when the method starts with "Ontology" and matched_words is not
\* empty, the label is a key of matched_words, also when Angry comes from
\* the hostile-address injection alone.
C3_LabelIsMatchedKey ==
    \A c \in Callers :
        ( /\ Done(c)
          /\ StartsWithStr(result[c].method, "Ontology")
          /\ result[c].matched_words # <<>> )
        => result[c].label \in Keys(result[c].matched_words)

\* Angry wins by the hostile-address injection although another emotion
\* has the only frame match
C3_Witness ==
    \E c \in Callers :
        /\ Done(c)
        /\ StartsWithStr(result[c].method, "Ontology")
        /\ result[c].label = "Angry"
        /\ HostileTokens(c) # {}
        /\ frame_matches[c] # <<>>
        /\ \A k \in 1..Len(contributions[c]) :
               contributions[c][k].emotion # "Angry"

\* C4: no token listed in the returned matched_words is in the negation
\* set, the intensifier map, the diminisher map or the connective map.
C4_ModifierExclusion ==
    \A c \in Callers :
        Done(c) =>
            \A e \in 1..Len(result[c].matched_words) :
                \A w \in 1..Len(result[c].matched_words[e][2]) :
                    ~InModifierSets(result[c].matched_words[e][2][w])

\* a text with a connective that is also a trigger label of the ontology,
\* next to a token that does match
C4_Witness ==
    \E c \in Callers :
        /\ Done(c)
        /\ result[c].matched_words # <<>>
        /\ \E i \in 1..Len(tokens[c]) :
               /\ InModifierSets(tokens[c][i])
               /\ \E r \in 1..Len(self.g) : self.g[r].label = tokens[c][i]

\* C5: two calls of predict on the same text on the same classifier return
\* identical results (label, confidence, method, matched_words,
\* explanation), whatever calls were made in between.
C5_SameTextSameResult ==
    \A c \in Callers :
        (Done(c) /\ seen.kept /\ text[c] = seen.text)
        => result[c] = seen.result

\* the text of a kept response is classified again after a call on
\* another text, on a path that ends in the ML fallback
C5_Witness ==
    \E c \in Callers :
        /\ Done(c)
        /\ seen.kept
        /\ seen.between
        /\ text[c] = seen.text
        /\ frame_matches[c] # <<>>
        /\ StartsWithStr(result[c].method, "ML")

\* the emotion Step A selects for a match record
RoleEmotion(m, role_info) ==
    IF role_info.speaker_is_patient THEN m.patientEmotion
    ELSE IF role_info.speaker_is_agent THEN m.agentEmotion
    ELSE m.typicalEmotion

NegationPositionSet(c) ==
    { linguistic_context[c].negation_positions[k] :
          k \in 1..Len(linguistic_context[c].negation_positions) }

\* the condition of the negation law for the match record m
NegationApplies(c, m) ==
    /\ ~RLess(m.weight, <<7, 10>>)
    /\ \E n \in NegationPositionSet(c) :
           Abs(m.token_idx - n) <= 2 /\ n # m.token_idx

\* C6: a match record at index i contributes the frame's negatedEmotion
\* exactly when the frame weight is >= 0.7 and a negation position n with
\* |i - n| <= 2, n # i exists; otherwise it contributes the role-selected
\* emotion, whatever negation positions exist.
C6_NegationLaw ==
    \A c \in Callers :
        Inferred(c) =>
            /\ Len(contributions[c]) = Len(frame_matches[c])
            /\ \A k \in 1..Len(frame_matches[c]) :
                   LET m  == frame_matches[c][k]
                       cn == contributions[c][k]
                       role == RoleEmotion(m, linguistic_context[c].role_info)
                   IN  /\ cn.emotion \in Keys(emotion_scores[c])
                       /\ cn.negated <=> NegationApplies(c, m)
                       /\ NegationApplies(c, m)
                              => cn.emotion = m.negatedEmotion
                       /\ ~NegationApplies(c, m) => cn.emotion = role
                       /\ m.negatedEmotion # role =>
                              (cn.emotion = m.negatedEmotion
                                   <=> NegationApplies(c, m))

\* one negation particle next to a strong frame, which is negated, and to a
\* weak frame, which is not
C6_Witness ==
    \E c \in Callers :
        /\ Inferred(c)
        /\ \E j, k \in 1..Len(frame_matches[c]) :
               /\ contributions[c][j].negated
               /\ contributions[c][j].emotion = "Sad"
               /\ RLess(frame_matches[c][k].weight, <<7, 10>>)
               /\ \E n \in NegationPositionSet(c) :
                      Abs(frame_matches[c][k].token_idx - n) = 1
               /\ ~contributions[c][k].negated

\* the factor one connective position contributes for a match at index i
ConnectiveFactor(i, cp) ==
    IF cp[2] = "contrastive"
    THEN IF i < cp[1] THEN cp[3] ELSE IF i > cp[1] THEN cp[4] ELSE One
    ELSE One

RECURSIVE DiscourseLaw(_, _, _)
DiscourseLaw(i, cps, k) ==
    IF k = 0 THEN One
    ELSE RMul(ConnectiveFactor(i, cps[k]), DiscourseLaw(i, cps, k - 1))

\* C7: the discourse multiplier applied to a match at index i is the
\* product, over the contrastive connectives at index c, of pre_weight if
\* i < c, post_weight if i > c and 1 if i = c; other connective types
\* contribute 1.
C7_ConnectiveLaw ==
    \A c \in Callers :
        Inferred(c) =>
            \A k \in 1..Len(contributions[c]) :
                LET m   == frame_matches[c][k]
                    cn  == contributions[c][k]
                    cps == linguistic_context[c].connective_positions
                    law == DiscourseLaw(m.token_idx, cps, Len(cps))
                IN  /\ cn.disc_w = law
                    /\ cn.weight =
                           RMul(RMul(RMul(m.weight, cn.int_mult),
                                     cn.dim_mult), law)

\* a match between two contrastive connectives, and a match after a causal
\* connective
C7_Witness ==
    \E c \in Callers :
        /\ Inferred(c)
        /\ \E k \in 1..Len(contributions[c]) :
               LET i   == contributions[c][k].token_idx
                   cps == linguistic_context[c].connective_positions
               IN  /\ \E a, b \in 1..Len(cps) :
                          /\ cps[a][2] = "contrastive" /\ cps[a][1] < i
                          /\ cps[b][1] > i
                          /\ cps[b][2] \in {"contrastive", "causal"}
                   /\ contributions[c][k].disc_w # One

RECURSIVE AngrySum(_)
AngrySum(cs) ==
    IF cs = <<>> THEN Zero
    ELSE RAdd(IF Head(cs).emotion = "Angry" THEN Head(cs).weight ELSE Zero,
              AngrySum(Tail(cs)))

\* C8: hostile_count is the number of token occurrences in the hostile
\* set; the final Angry score is the sum of the frame contributions to
\* Angry plus 0.7 x hostile_count; with hostile_count = 0 nothing is added
\* and the step creates no Angry entry.
C8_HostileContribution ==
    \A c \in Callers :
        Inferred(c) =>
            LET n == Cardinality(HostileTokens(c))
                frames == AngrySum(contributions[c])
                byFrame == \E k \in 1..Len(contributions[c]) :
                               contributions[c][k].emotion = "Angry"
            IN  /\ linguistic_context[c].role_info.hostile_count = n
                /\ n > 0 =>
                       /\ "Angry" \in Keys(emotion_scores[c])
                       /\ Lookup(emotion_scores[c], "Angry")
                              = RAdd(frames, Rat(7 * n, 10))
                /\ n = 0 =>
                       /\ "Angry" \in Keys(emotion_scores[c]) <=> byFrame
                       /\ byFrame =>
                              Lookup(emotion_scores[c], "Angry") = frames

\* a hostile token that occurs twice, next to a frame that contributes
\* to Angry
C8_Witness ==
    \E c \in Callers :
        /\ Inferred(c)
        /\ Cardinality(HostileTokens(c)) >= 2
        /\ \E k \in 1..Len(contributions[c]) :
               contributions[c][k].emotion = "Angry"

\* what the ML fallback is to return for the text t: the label and the
\* rounded dot product of a best non-Neutral centroid, Neutral below the
\* threshold, Unknown and 0.0 without embedder or centroid table
NonNeutralCentroids == {l \in SeqToSet(self.centroids) : l # "Neutral"}

FallbackReturns(t, label, confidence) ==
    IF ~self.model.loaded \/ Len(self.centroids) = 0
    THEN label = "Unknown" /\ confidence = Zero
    ELSE IF NonNeutralCentroids = {}
    THEN label = "Neutral" /\ confidence = <<-1, 1>>
    ELSE \E top \in NonNeutralCentroids :
             LET score == Sim(self.model.seed, t, top)
             IN  /\ \A l \in NonNeutralCentroids :
                        RLeq(Sim(self.model.seed, t, l), score)
                 /\ confidence = Round4(score)
                 /\ label = IF RLess(score, <<1, 4>>) THEN "Neutral" ELSE top

\* C9: when Tier 3 yields an empty score map (no frame match and no hostile
\* token, zero tokens included) predict returns the label and confidence
\* of the ML fallback, an empty matched_words and a non-empty explanation;
\* without embedder or centroid table the result is Unknown with 0.0.
C9_EmptyScoresDelegateToML ==
    \A c \in Callers :
        /\ Inferred(c) =>
               /\ emotion_scores[c] = <<>>
                      <=> (frame_matches[c] = <<>> /\ HostileTokens(c) = {})
               /\ tokens[c] = <<>> => emotion_scores[c] = <<>>
        /\ (Done(c) /\ emotion_scores[c] = <<>>) =>
               /\ FallbackReturns(text[c], result[c].label,
                                  result[c].confidence)
               /\ result[c].matched_words = <<>>
               /\ result[c].explanation # <<>>

\* the empty text sent to a classifier whose centroid table is missing
C9_Witness ==
    \E c \in Callers :
        /\ Done(c)
        /\ tokens[c] = <<>>
        /\ self.model.loaded
        /\ self.centroids = <<>>
        /\ result[c].label = "Unknown"

\* the arbitration path of call c, read off the score map
TopScore(d) ==
    LET i == CHOOSE j \in 1..Len(d) :
                 \A k \in 1..Len(d) : RLeq(d[k][2], d[j][2])
    IN  <<i, d[i][2]>>

SecondScore(d) ==
    LET rest == (1..Len(d)) \ {TopScore(d)[1]}
        i == CHOOSE j \in rest : \A k \in rest : RLeq(d[k][2], d[j][2])
    IN  d[i][2]

DominantCase(d) ==
    LET top == TopScore(d)[2]
        second == SecondScore(d)
    IN  /\ RLess(Zero, top)
        /\ \/ second = Zero
           \/ RLess(Zero, second) /\ RLeq(RMul(Two, second), top)

PathNoMatch(c) == emotion_scores[c] = <<>>

PathSingle(c) == Len(emotion_scores[c]) = 1

PathDominant(c) ==
    Len(emotion_scores[c]) >= 2 /\ DominantCase(emotion_scores[c])

PathConflict(c) ==
    Len(emotion_scores[c]) >= 2 /\ ~DominantCase(emotion_scores[c])

DegradedLoad ==
    \E cfg \in AssetConfigs :
        /\ ~cfg.frames \/ cfg.modifiers = ""
        /\ self = __init__(cfg)

\* C11: when the frames file or the modifiers file is missing at load, the
\* ontology tier produces no matches and every predict call delegates to
\* the ML fallback (method prefix "ML"), for every text, texts with
\* hostile-address tokens or frame triggers included.
C11_DegradedModeDelegatesToML ==
    \A c \in Callers :
        DegradedLoad =>
            /\ Inferred(c) =>
                   frame_matches[c] = <<>> /\ emotion_scores[c] = <<>>
            /\ Done(c) =>
                   /\ StartsWithStr(result[c].method, "ML")
                   /\ label_conf[c] # <<>>

\* clamp(round(w / 2, 4), 0.5, 1.0)
ClampedHalf(w) ==
    LET r == Round4(RDiv(w, Two))
    IN  IF RLess(r, Half) THEN Half ELSE IF RLess(One, r) THEN One ELSE r

\* C12: when the score map has exactly one emotion e with total weight w,
\* predict returns label e, confidence clamp(round(w/2, 4), 0.5, 1.0) (at
\* least 0.5, and 1.0 once w >= 2.0), the matched_words and explanation of
\* Tier 3 unmodified and the method "Ontology (Frame-based, k triggers)"
\* with k the length of matched_words[e]; classify_ml is not called.
C12_SingleEmotionPath ==
    \A c \in Callers :
        (Done(c) /\ Len(emotion_scores[c]) = 1) =>
            LET e == emotion_scores[c][1][1]
                w == emotion_scores[c][1][2]
                k == Len(Lookup(matched_words[c], e))
            IN  /\ result[c].label = e
                /\ result[c].confidence = ClampedHalf(w)
                /\ RLeq(Half, result[c].confidence)
                /\ RLeq(Two, w) => result[c].confidence = One
                /\ result[c].matched_words = matched_words[c]
                /\ result[c].explanation = explanation[c]
                /\ Concat(result[c].method)
                       = "Ontology (Frame-based, " \o ToString(k)
                             \o " triggers)"
                /\ label_conf[c] = <<>>

\* one emotion with a total weight above 2.0, part of it from a trigger
C12_Witness ==
    \E c \in Callers :
        /\ Done(c)
        /\ Len(emotion_scores[c]) = 1
        /\ RLess(Two, emotion_scores[c][1][2])
        /\ Len(matched_words[c][1][2]) >= 1
        /\ result[c].confidence = One

\* the result of call c is the ontology result for the emotion at index i
\* of the score map, with the dominant-win confidence against score t2
DominantResult(c, i, t2) ==
    LET top   == emotion_scores[c][i][1]
        t_top == emotion_scores[c][i][2]
    IN  /\ StartsWithStr(result[c].method, "Ontology")
        /\ result[c].label = top
        /\ result[c].confidence
               = RMin(Round4(RDiv(t_top, RAdd(t_top, t2))), One)
        /\ label_conf[c] = <<>>

IsConflictLine(line) ==
    /\ StartsWithStr(line, "Frame conflict: ")
    /\ line[Len(line)] = " -> fallback to ML"

\* C14: when two or more emotions score and the dominant-win condition
\* fails, predict returns the label and confidence of the ML fallback, the
\* full matched_words map with an entry for every scored emotion, and the
\* Tier-3 explanation with exactly one conflict line appended at the end.
C14_FrameConflictPath ==
    \A c \in Callers :
        (Done(c) /\ PathConflict(c)) =>
            LET n == Len(explanation[c])
            IN  /\ FallbackReturns(text[c], result[c].label,
                                   result[c].confidence)
                /\ label_conf[c] = <<result[c].label, result[c].confidence>>
                /\ result[c].matched_words = matched_words[c]
                /\ Keys(result[c].matched_words) = Keys(emotion_scores[c])
                /\ Len(result[c].explanation) = n + 1
                /\ SubSeq(result[c].explanation, 1, n) = explanation[c]
                /\ IsConflictLine(result[c].explanation[n + 1])
                /\ \A k \in 1..n : ~IsConflictLine(result[c].explanation[k])

\* two emotions with equal scores, each from one trigger
C14_Witness ==
    \E c \in Callers :
        /\ Done(c)
        /\ Len(emotion_scores[c]) = 2
        /\ emotion_scores[c][1][2] = emotion_scores[c][2][2]
        /\ Len(result[c].matched_words) = 2
        /\ StartsWithStr(result[c].method, "ML")
        /\ result[c].label \in {"Happy", "Sad", "Angry"}

\* the dot product of the embedding of the text of call c with the
\* centroid at index i of the table
Score(c, i) == Sim(self.model.seed, text[c], self.centroids[i])

\* the index of the centroid classify_ml is to pick for call c: not
\* Neutral, no other non-Neutral centroid scores higher, and none before it
\* in the table scores as high
BestCentroid(c, i) ==
    /\ self.centroids[i] # "Neutral"
    /\ \A j \in 1..Len(self.centroids) :
           self.centroids[j] # "Neutral" =>
               /\ RLeq(Score(c, j), Score(c, i))
               /\ j < i => RLess(Score(c, j), Score(c, i))

\* C15: with embedder and centroids available, classify_ml ignores the
\* Neutral centroid, takes the non-Neutral centroid with the highest dot
\* product (the first one in table order on a tie) and returns Neutral
\* with the score (rounded to 4 decimals) if the score is below 0.25 and
\* the label of that centroid with the score otherwise; a score of exactly
\* 0.25 yields the label, not Neutral.
C15_MLFallbackDecision ==
    \A c \in Callers :
        ( /\ Done(c)
          /\ label_conf[c] # <<>>
          /\ self.model.loaded
          /\ self.centroids # <<>> )
        => \E i \in 1..Len(self.centroids) :
               /\ BestCentroid(c, i)
               /\ label_conf[c][2] = Round4(Score(c, i))
               /\ RLess(Score(c, i), <<1, 4>>) => label_conf[c][1] = "Neutral"
               /\ ~RLess(Score(c, i), <<1, 4>>)
                      => label_conf[c][1] = self.centroids[i]

\* every non-Neutral centroid scores exactly 0.25: the first one of the
\* table is returned
C15_Witness ==
    \E c \in Callers :
        /\ Done(c)
        /\ label_conf[c] # <<>>
        /\ self.model.loaded
        /\ self.centroids # <<>>
        /\ \A j \in 1..Len(self.centroids) : Score(c, j) = <<1, 4>>
        /\ label_conf[c] = <<self.centroids[1], <<1, 4>>>>

\* the emotion fields the schema of frames.json requires
RequiredEmotionFields ==
    {"typicalEmotion", "agentEmotion", "patientEmotion", "negatedEmotion"}

\* the entries of the loaded frames table that violate the schema
MalformedEntries ==
    { f \in DOMAIN self.frames_data :
          \/ ~(RequiredEmotionFields \subseteq DOMAIN self.frames_data[f])
          \/ /\ "weight" \in DOMAIN self.frames_data[f]
             /\ self.frames_data[f].weight = NotANumber }

\* the token at index i of call c is an exact trigger label of frame f
ExactTrigger(c, i, f) ==
    /\ Len(tokens[c][i]) >= 3
    /\ ~InModifierSets(tokens[c][i])
    /\ \E r \in 1..Len(self.g) :
           self.g[r].label = tokens[c][i] /\ self.g[r].frame_label = f

\* C16: a frame entry that lacks one of the four required emotion fields
\* or has a non-numeric weight contributes no match record and no score to
\* any query, while every other, well-formed entry keeps producing
\* matches.
C16_MalformedEntriesRejected ==
    \A c \in Callers :
        pc[c] \in {"tier3", "arbitrate", "done", "raised"} =>
            /\ \A k \in 1..Len(frame_matches[c]) :
                   frame_matches[c][k].frame_name \notin MalformedEntries
            /\ \A k \in 1..Len(contributions[c]) :
                   contributions[c][k].frame_name \notin MalformedEntries
            /\ \A i \in 1..Len(tokens[c]) :
                   \A f \in DOMAIN self.frames_data \ MalformedEntries :
                       ExactTrigger(c, i, f) =>
                           \E k \in 1..Len(frame_matches[c]) :
                               /\ frame_matches[c][k].token_idx = i
                               /\ frame_matches[c][k].frame_name = f

ResultFields ==
    {"label", "confidence", "method", "matched_words", "explanation"}

\* C17: for every input text (the empty text included) and every
\* combination of missing or malformed startup assets, a predict call never
\* ends in an exception, and the record it returns has the five fields
\* label, confidence, method, matched_words and explanation.
C17_PredictNeverRaises ==
    \A c \in Callers :
        /\ pc[c] # "raised"
        /\ Done(c) => DOMAIN result[c] = ResultFields

\* the result predict(t) returns when the call runs alone, from start to
\* end, on the classifier as it is now
Alone(t) ==
    LET toks == tokenize(t)
        ctx  == _analyze_linguistics(toks)
        ms   == _match_frames(toks)
        r    == _infer_emotions(ms, ctx, toks)
    IN  Arbitration(t, r.emotion_scores, r.matched_words, r.explanation).ret

\* C18: for any interleaving of the steps of two predict calls running on
\* the one shared classifier, each call returns the result it returns when
\* run alone, and no step changes the loaded tables (frames, modifier sets
\* and maps, role-marker sets, centroids).
C18_ConcurrentCallsSafe ==
    /\ [](\A c \in Threads : Done(c) => result[c] = Alone(text[c]))
    /\ [][self' = self]_vars

\* one thread has its result while the other, called with another text,
\* is between Tier 2 and the arbitration
C18_Witness ==
    \E c, d \in Threads :
        /\ c # d
        /\ Done(c)
        /\ frame_matches[c] # <<>>
        /\ StartsWithStr(result[c].method, "Ontology")
        /\ pc[d] \in {"tier3", "arbitrate"}
        /\ text[d] # text[c]
        /\ frame_matches[d] # frame_matches[c]

\* call c has the text of the contrastive scenario: three tokens, a
\* trigger of one frame of weight 0.5 and typical emotion Happy, a
\* contrastive connective with pre_weight 0.3 and post_weight 1.2, a
\* trigger of one frame of weight 0.5 and typical emotion Sad, and no
\* other modifier or role marker
ContrastiveScenario(c) ==
    LET ctx == linguistic_context[c]
        ms  == frame_matches[c]
    IN  /\ Len(tokens[c]) = 3
        /\ ctx.connective_positions
               = << <<2, "contrastive", <<3, 10>>, <<6, 5>>>> >>
        /\ ctx.negation_positions = <<>>
        /\ ctx.intensifier_positions = <<>>
        /\ ctx.diminisher_positions = <<>>
        /\ ctx.role_info = NoContext.role_info
        /\ Len(ms) = 2
        /\ ms[1].token_idx = 1 /\ ms[1].typicalEmotion = "Happy"
        /\ ms[1].weight = <<1, 2>>
        /\ ms[2].token_idx = 3 /\ ms[2].typicalEmotion = "Sad"
        /\ ms[2].weight = <<1, 2>>

\* C19: for the three-token text 'happy-trigger, contrastive connective,
\* sad-trigger' (frames of weight 0.5, pre_weight 0.3, post_weight 1.2, no
\* other modifiers or role markers) Tier 3 yields Happy = 0.15 and
\* Sad = 0.6, and predict returns Sad by dominant win with confidence 0.8
\* and a method starting with "Ontology".
C19_ContrastiveScenario ==
    \A c \in Callers :
        /\ (Inferred(c) /\ ContrastiveScenario(c)) =>
               /\ Keys(emotion_scores[c]) = {"Happy", "Sad"}
               /\ Lookup(emotion_scores[c], "Happy") = <<3, 20>>
               /\ Lookup(emotion_scores[c], "Sad") = <<3, 5>>
        /\ (Done(c) /\ ContrastiveScenario(c)) =>
               /\ result[c].label = "Sad"
               /\ result[c].confidence = <<4, 5>>
               /\ StartsWithStr(result[c].method,
                                "Ontology (Frame-based, dominant: ")
               /\ label_conf[c] = <<>>

\* the scenario has been classified
C19_Witness ==
    \E c \in Callers :
        /\ Done(c)
        /\ ContrastiveScenario(c)
        /\ result[c].label = "Sad"

\* C20: for every text with h >= 1 hostile-address tokens and no frame
\* match, predict returns Angry with a method starting with "Ontology" and
\* confidence clamp(round(0.7 x h / 2, 4), 0.5, 1.0) >= 0.5 (for h = 2 the
\* Angry score is 1.4), without calling classify_ml: the hostile injection
\* runs although Angry has no frame match.
C20_HostileOnlyScenario ==
    \A c \in Callers :
        LET h == Cardinality(HostileTokens(c))
        IN  (Done(c) /\ h >= 1 /\ frame_matches[c] = <<>>) =>
                /\ KeyList(emotion_scores[c]) = <<"Angry">>
                /\ Lookup(emotion_scores[c], "Angry") = Rat(7 * h, 10)
                /\ h = 2 => Lookup(emotion_scores[c], "Angry") = <<7, 5>>
                /\ result[c].label = "Angry"
                /\ StartsWithStr(result[c].method, "Ontology")
                /\ result[c].confidence = ClampedHalf(Rat(7 * h, 10))
                /\ RLeq(Half, result[c].confidence)
                /\ label_conf[c] = <<>>

\* one hostile token next to a token that matches no frame: the floor of
\* 0.5 applies
C20_Witness ==
    \E c \in Callers :
        /\ Done(c)
        /\ Cardinality(HostileTokens(c)) = 1
        /\ Len(tokens[c]) >= 2
        /\ frame_matches[c] = <<>>
        /\ result[c].label = "Angry"
        /\ result[c].confidence = Half

\* some token of call c is a first-person marker of the given kind
Speaks(c, markers) == \E i \in 1..Len(tokens[c]) : tokens[c][i] \in markers

\* the Tier 1 result of call c with the experiencer flag inverted
FlippedExperiencer(c) ==
    [linguistic_context[c] EXCEPT
        !.role_info.speaker_is_experiencer = ~@]

\* C21: the base emotion of every match is its patientEmotion when the text
\* holds a first-person patient marker, otherwise its agentEmotion when the
\* text holds a first-person agent marker, otherwise its typicalEmotion
\* (patient wins when both are present); the experiencer flag changes
\* neither the selection, nor the scores, nor the returned result.
C21_RoleSelection ==
    \A c \in Callers :
        Inferred(c) =>
            LET patient == Speaks(c, self.first_person_patient)
                agent   == Speaks(c, self.first_person_agent)
                flipped == _infer_emotions(frame_matches[c],
                               FlippedExperiencer(c), tokens[c])
            IN  /\ Len(contributions[c]) = Len(frame_matches[c])
                /\ \A k \in 1..Len(contributions[c]) :
                       LET m == frame_matches[c][k]
                           x == contributions[c][k]
                       IN  ~x.negated =>
                               x.emotion =
                                   IF patient THEN m.patientEmotion
                                   ELSE IF agent THEN m.agentEmotion
                                   ELSE m.typicalEmotion
                /\ flipped.contributions = contributions[c]
                /\ flipped.emotion_scores = emotion_scores[c]
                /\ Done(c) =>
                       Arbitration(text[c], flipped.emotion_scores,
                           flipped.matched_words, flipped.explanation).ret
                           = result[c]

\* a finished call whose text holds a patient, an agent and an experiencer
\* marker and a trigger whose three role emotions differ: the patient
\* emotion was selected
C21_Witness ==
    \E c \in Callers :
        /\ Done(c)
        /\ Speaks(c, self.first_person_patient)
        /\ Speaks(c, self.first_person_agent)
        /\ Speaks(c, self.first_person_experiencer)
        /\ \E k \in 1..Len(contributions[c]) :
               LET m == frame_matches[c][k]
               IN  /\ m.patientEmotion # m.agentEmotion
                   /\ m.agentEmotion # m.typicalEmotion
                   /\ m.patientEmotion # m.typicalEmotion
                   /\ contributions[c][k].emotion = m.patientEmotion
                   /\ result[c].label = m.patientEmotion

\* the multipliers the table map gives the tokens of call c that stand at an
\* index j with |i - j| <= 3 and j # i
WindowMultipliers(c, i, map) ==
    { map[tokens[c][j]] :
        j \in { j \in 1..Len(tokens[c]) :
                  /\ j # i
                  /\ Abs(i - j) <= 3
                  /\ tokens[c][j] \in DOMAIN map } }

MaxOf(S) == CHOOSE x \in S : \A y \in S : RLeq(y, x)

MinOf(S) == CHOOSE x \in S : \A y \in S : RLeq(x, y)

\* the loaded tables keep to the documented ranges: intensifier
\* multipliers above 1, diminisher multipliers below 1
TablesInRange ==
    /\ \A w \in DOMAIN self.intensifier_map :
           RLess(One, self.intensifier_map[w])
    /\ \A w \in DOMAIN self.diminisher_map :
           RLess(self.diminisher_map[w], One)

\* the number of intensifier tokens of call c at distance 1..3 from i, and
\* beyond distance 3
IntensifiersNear(c, i) ==
    Cardinality({ j \in 1..Len(tokens[c]) :
        /\ j # i
        /\ Abs(i - j) <= 3
        /\ tokens[c][j] \in DOMAIN self.intensifier_map })

IntensifiersFar(c, i) ==
    Cardinality({ j \in 1..Len(tokens[c]) :
        /\ Abs(i - j) > 3
        /\ tokens[c][j] \in DOMAIN self.intensifier_map })

Matched(c) == pc[c] \in {"tier3", "arbitrate", "done"}

\* the frame names the ontology or the frames table mention
FrameNames ==
    {self.g[r].frame_label : r \in 1..Len(self.g)}
        \cup DOMAIN self.frames_data \cup DOMAIN FramesFile

\* label L is the token, or one is a prefix of the other and their lengths
\* differ by at most 3
LabelFits(L, token) ==
    \/ L = token
    \/ /\ StartsWith(token, L) \/ StartsWith(L, token)
       /\ Abs(Len(L) - Len(token)) <= 3

HasRecord(c, i, F) ==
    \E k \in 1..Len(frame_matches[c]) :
        /\ frame_matches[c][k].token_idx = i
        /\ frame_matches[c][k].frame_name = F

\* C23: Tier 2 emits a match for token index i and frame F exactly when the
\* token has at least 3 code points, is in none of the negation,
\* intensifier, diminisher and connective sets, F is in the frames table,
\* and some trigger label of F equals the token or is in prefix relation
\* with it at a length difference of at most 3; role markers and hostile
\* tokens are looked up like any other token.
C23_FrameMatchEligibility ==
    \A c \in Callers :
        Matched(c) =>
            \A i \in 1..Len(tokens[c]) : \A F \in FrameNames :
                LET token == tokens[c][i]
                IN  HasRecord(c, i, F) <=>
                        /\ Len(token) >= 3
                        /\ token \notin self.negation_words
                        /\ token \notin DOMAIN self.intensifier_map
                        /\ token \notin DOMAIN self.diminisher_map
                        /\ token \notin DOMAIN self.connective_map
                        /\ F \in DOMAIN self.frames_data
                        /\ \E r \in 1..Len(self.g) :
                               /\ self.g[r].frame_label = F
                               /\ LabelFits(self.g[r].label, token)

\* one text with a hostile role marker that has a match record, a token of
\* two code points that is a prefix of a label and has none, and a token
\* that has a record by one label although another label of the same frame
\* is a prefix of it at a length difference above 3
C23_Witness ==
    \E c \in Callers :
        /\ Done(c)
        /\ \E i, j, l \in 1..Len(tokens[c]) :
               /\ tokens[c][i] \in self.hostile_words
               /\ \E F \in FrameNames : HasRecord(c, i, F)
               /\ Len(tokens[c][j]) < 3
               /\ \E r \in 1..Len(self.g) :
                      StartsWith(self.g[r].label, tokens[c][j])
               /\ \A F \in FrameNames : ~HasRecord(c, j, F)
               /\ \E r \in 1..Len(self.g) :
                      /\ StartsWith(tokens[c][l], self.g[r].label)
                      /\ Len(tokens[c][l]) - Len(self.g[r].label) > 3
                      /\ HasRecord(c, l, self.g[r].frame_label)

\* the rows of the ontology whose frame is F and whose label fits the token
FittingRows(F, token) ==
    { r \in 1..Len(self.g) :
        /\ self.g[r].frame_label = F
        /\ LabelFits(self.g[r].label, token) }

\* the first of the rows with a longest label
FirstLongest(rows) ==
    CHOOSE r \in rows :
        \A q \in rows :
            \/ Len(self.g[q].label) < Len(self.g[r].label)
            \/ Len(self.g[q].label) = Len(self.g[r].label) /\ r <= q

RecordPairs(c) ==
    { <<frame_matches[c][k].token_idx, frame_matches[c][k].frame_name>> :
          k \in 1..Len(frame_matches[c]) }

\* C24: the match list holds at most one record per (token_idx,
\* frame_name); its matched_label is a longest fitting label of the frame,
\* the first the query returned on a tie; Tier 3 adds the weight of a frame
\* once for each pair, so that a token at two indices or a token matching
\* two frames contributes once per pair.
C24_PerTokenDeduplication ==
    \A c \in Callers :
        Matched(c) =>
            /\ \A k, n \in 1..Len(frame_matches[c]) :
                   (/\ frame_matches[c][k].token_idx
                          = frame_matches[c][n].token_idx
                    /\ frame_matches[c][k].frame_name
                          = frame_matches[c][n].frame_name) => k = n
            /\ \A k \in 1..Len(frame_matches[c]) :
                   LET m == frame_matches[c][k]
                       rows == FittingRows(m.frame_name, m.token)
                   IN  /\ rows # {}
                       /\ m.token = tokens[c][m.token_idx]
                       /\ m.matched_label = self.g[FirstLongest(rows)].label
            /\ Inferred(c) =>
                   /\ Len(contributions[c]) = Cardinality(RecordPairs(c))
                   /\ \A k \in 1..Len(contributions[c]) :
                          /\ contributions[c][k].token_idx
                                 = frame_matches[c][k].token_idx
                          /\ contributions[c][k].frame_name
                                 = frame_matches[c][k].frame_name

\* a finished call whose text has one token at two indices; the token fits
\* labels of two frames, two of them labels of one frame of the same
\* length, and a shorter and a longer label of one frame fit another token:
\* four records in all for the repeated token, one per pair
C24_Witness ==
    \E c \in Callers :
        /\ Done(c)
        /\ \E i, j \in 1..Len(tokens[c]) :
               /\ i # j
               /\ tokens[c][i] = tokens[c][j]
               /\ \E F, G \in FrameNames :
                      /\ F # G
                      /\ {<<i, F>>, <<i, G>>, <<j, F>>, <<j, G>>}
                             \subseteq RecordPairs(c)
                      /\ \E r, q \in FittingRows(F, tokens[c][i]) :
                             /\ r # q
                             /\ Len(self.g[r].label) = Len(self.g[q].label)
        /\ \E k \in 1..Len(frame_matches[c]) :
               \E r \in FittingRows(frame_matches[c][k].frame_name,
                                    frame_matches[c][k].token) :
                   Len(self.g[r].label)
                       < Len(frame_matches[c][k].matched_label)

\* Tier 1 has run for call c and its result is in linguistic_context[c]
Analyzed(c) == pc[c] \in {"tier2", "tier3", "arbitrate", "done"}

HasNegSuffix(token) == \E suffix \in NegSuffixes : EndsWith(token, suffix)

\* C25: index i is a negation position exactly when its token is in the
\* negation set, or has more than 5 code points and ends with one of the
\* verb-final negation suffixes; a token of at most 5 code points with such
\* a suffix that is not in the set is no negation position, and a token of
\* the set is one whatever its length.  Each index is recorded once, in
\* index order.
C25_NegationDetection ==
    \A c \in Callers :
        Analyzed(c) =>
            LET np == linguistic_context[c].negation_positions
            IN  /\ \A i \in 1..Len(tokens[c]) :
                       (\E k \in 1..Len(np) : np[k] = i) <=>
                           \/ tokens[c][i] \in self.negation_words
                           \/ /\ Len(tokens[c][i]) > 5
                              /\ HasNegSuffix(tokens[c][i])
                /\ \A k \in 1..Len(np) : np[k] \in 1..Len(tokens[c])
                /\ \A k, n \in 1..Len(np) : k < n => np[k] < np[n]

\* a finished call with a recorded suffixed token of 6 code points, an
\* unrecorded token of 5 code points with the same suffix, and a recorded
\* token of the negation set of 2 code points
C25_Witness ==
    \E c \in Callers :
        /\ Done(c)
        /\ LET np == linguistic_context[c].negation_positions
               Recorded(i) == \E k \in 1..Len(np) : np[k] = i
           IN  \E i, j, l \in 1..Len(tokens[c]) :
                   /\ Len(tokens[c][i]) = 6
                   /\ HasNegSuffix(tokens[c][i])
                   /\ tokens[c][i] \notin self.negation_words
                   /\ Recorded(i)
                   /\ Len(tokens[c][j]) = 5
                   /\ HasNegSuffix(tokens[c][j])
                   /\ ~Recorded(j)
                   /\ Len(tokens[c][l]) < 3
                   /\ tokens[c][l] \in self.negation_words
                   /\ Recorded(l)

\* the ordered dict d as a map from its keys to its values
AsMap(d) == [k \in Keys(d) |-> Lookup(d, k)]

\* C26: Tier 3 run on a permutation of a match list yields the same score
\* map as Tier 3 run on the list itself.
C26_OrderIndependence ==
    (\A c \in Threads : pc[c] = "arbitrate") =>
        AsMap(emotion_scores[1]) = AsMap(emotion_scores[2])

\* C27: the arbitration never divides by a zero second score: whenever the
\* second score is 0 the test second_score == 0 decides the dominance
\* condition, so no call leaves the arbitration by ZeroDivisionError.
C27_NoDivisionByZero ==
    [][\A c \in Callers : pc[c] = "arbitrate" => pc'[c] # "raised"]_vars

\* a finished call with two scoring emotions, a positive top score and a
\* second score of 0, answered by the dominant branch
C27_Witness ==
    \E c \in Callers :
        /\ Done(c)
        /\ Len(emotion_scores[c]) >= 2
        /\ RLess(Zero, TopScore(emotion_scores[c])[2])
        /\ SecondScore(emotion_scores[c]) = Zero
        /\ StartsWithStr(result[c].method, "Ontology")
        /\ result[c].label
               = emotion_scores[c][TopScore(emotion_scores[c])[1]][1]
        /\ result[c].confidence = One

\* call c was answered by the dominant branch, from non-negative scores
DominantWin(c) ==
    /\ Done(c)
    /\ PathDominant(c)
    /\ \A k \in 1..Len(emotion_scores[c]) :
           RLeq(Zero, emotion_scores[c][k][2])

\* top / (top + second) for the scores of call c
TopShare(c) ==
    LET top == TopScore(emotion_scores[c])[2]
        second == SecondScore(emotion_scores[c])
    IN  RDiv(top, RAdd(top, second))

\* C28 as stated: on a dominant win from non-negative scores the confidence
\* lies in [0.6667, 1.0] and is 1.0 exactly when the second score is 0.
C28_DominantConfidenceAsStated ==
    \A c \in Callers :
        DominantWin(c) =>
            /\ RLeq(<<6667, 10000>>, result[c].confidence)
            /\ RLeq(result[c].confidence, One)
            /\ result[c].confidence = One
                   <=> SecondScore(emotion_scores[c]) = Zero

\* C28: on a dominant win from non-negative scores the confidence lies in
\* [0.6667, 1.0]; it is 1.0 when the second score is 0, and also when the
\* second score is positive but so small that top / (top + second) rounds
\* to 1.0 at four places, that is when the quotient is at least 0.99995.
C28_DominantConfidence ==
    \A c \in Callers :
        DominantWin(c) =>
            /\ RLeq(<<6667, 10000>>, result[c].confidence)
            /\ RLeq(result[c].confidence, One)
            /\ SecondScore(emotion_scores[c]) = Zero
                   => result[c].confidence = One
            /\ result[c].confidence = One
                   <=> RLeq(<<19999, 20000>>, TopShare(c))

\* a dominant win with confidence 1.0 over a positive second score
C28_Witness ==
    \E c \in Callers :
        /\ DominantWin(c)
        /\ RLess(Zero, SecondScore(emotion_scores[c]))
        /\ result[c].confidence = One

RECURSIVE TotalScore(_)
TotalScore(d) ==
    IF d = <<>> THEN Zero ELSE RAdd(Head(d)[2], TotalScore(Tail(d)))

\* the score map d cut down to its two highest entries, in dict order
TopTwo(d) ==
    LET i == TopScore(d)[1]
        rest == (1..Len(d)) \ {i}
        j == CHOOSE j \in rest : \A k \in rest : RLeq(d[k][2], d[j][2])
    IN  IF i < j THEN <<d[i], d[j]>> ELSE <<d[j], d[i]>>

=============================================================================
